---- MODULE Spec2Model ----
(***************************************************************************)
(* Smart Repository Assistant: the issue / pull-request classifier          *)
(* (issue_bot.py), the webhook server (app.py) and the health scorer        *)
(* (analytics.py), as state machines.                                       *)
(*                                                                          *)
(* Texts are TLC strings; Len, SubSeq and \o act on them character by       *)
(* character, so "keyword in text" and the regular expressions of           *)
(* extract_components are computed on the characters, as Python does.       *)
(***************************************************************************)
EXTENDS Integers, Sequences, FiniteSets, TLC

VARIABLES
    title,      \* classifier input: the issue title
    body,       \* classifier input: the issue body
    hashSeed,   \* this process's string-hash seed: the iteration order of a set of str
    cls,        \* the result of the latest classification of (title, body), or NoResult
    prev,       \* the result of the classification before it, or NoResult
    runs,       \* how many times the process was started (hash seeds drawn)
    additions,  \* pr.additions of the pull request looked at
    deletions,  \* pr.deletions of the pull request looked at
    size_label, \* what _determine_pr_size returned for it, or None
    pr_sizes,   \* the dict pr_sizes of get_pull_request_analytics: bucket -> count
    health_pc,       \* where calculate_health_score is: the fetch it makes next
    basic_stats,     \* what get_basic_stats returned to it
    commit_activity, \* what get_commit_activity(30) returned to it
    issue_stats,     \* what get_issue_analytics returned to it
    pr_stats,        \* what get_pull_request_analytics returned to it
    score,           \* its local score, in units of 1 / ScoreUnit
    health_score,    \* what it returned (health_pc = "returned"), in the same units
    fetch_fails,     \* host: the fetches of this call that raise inside their fetcher
    repo_issues,     \* get_issue_analytics: its list issues, as the host returned it
    repo_pulls,      \* get_pull_request_analytics: its list pulls, as the host returned it
    secret,          \* Config.GITHUB_WEBHOOK_SECRET
    active,          \* the threads of the server that take requests
    hook,            \* per thread: the webhook request it handles and its locals
    deliveries,      \* how many webhook requests the server has taken
    repo_labels,     \* host: the names of the labels of the repository
    issue_labels,    \* host: the labels of the issue
    issue_comments,  \* host: the comments of the issue, oldest first
    pr_labels,       \* host: the labels of the pull request
    health_status,   \* GET /health: the "status" of its answer, or None
    dash_status,     \* dashboard: the status display_health_score shows, or None
    remaining,       \* host: rate_limit.core.remaining, the calls left in this window
    reset,           \* host: rate_limit.core.reset, the time this window ends
    clock,           \* time.time()
    last_call,       \* the latest call to the host and what preceded it, or NoCall
    stat_repos,      \* GET /stats: the list repos, the parameter split at the commas
    stat_seen,       \* GET /stats: per iteration of its loop, the name and whether it raised
    stat_result,     \* GET /stats: its dict stats
    stat_status,     \* GET /stats: the status of its answer, 0 before it
    report,          \* get_comprehensive_report: its position and the sections built so far
    report_host      \* host: which content the repository of the report has now

classVars == <<title, body, hashSeed, cls, prev, runs>>
sizeVars == <<additions, deletions, size_label, pr_sizes>>
healthVars == <<health_pc, basic_stats, commit_activity, issue_stats, pr_stats,
                score, health_score, fetch_fails, repo_issues, repo_pulls>>
hostVars == <<repo_labels, issue_labels, issue_comments, pr_labels>>
hookVars == <<secret, active, hook, deliveries, hostVars>>
quotaVars == <<remaining, reset, clock, last_call>>
statVars == <<stat_repos, stat_seen, stat_result, stat_status>>
reportVars == <<report, report_host>>
serveVars == <<health_status, dash_status, quotaVars, statVars, reportVars>>
vars == <<classVars, sizeVars, healthVars, hookVars, serveVars>>

None == "None"

NoResult == [type |-> "-"]

----------------------------------------------------------------------------
(* Strings *)

Range(s) == {s[i] : i \in DOMAIN s}

Char(s, i) == SubSeq(s, i, i)

UpperToLower ==
    [c \in {"A","B","C","D","E","F","G","H","I","J","K","L","M",
            "N","O","P","Q","R","S","T","U","V","W","X","Y","Z"} |->
        CASE c = "A" -> "a" [] c = "B" -> "b" [] c = "C" -> "c" [] c = "D" -> "d"
          [] c = "E" -> "e" [] c = "F" -> "f" [] c = "G" -> "g" [] c = "H" -> "h"
          [] c = "I" -> "i" [] c = "J" -> "j" [] c = "K" -> "k" [] c = "L" -> "l"
          [] c = "M" -> "m" [] c = "N" -> "n" [] c = "O" -> "o" [] c = "P" -> "p"
          [] c = "Q" -> "q" [] c = "R" -> "r" [] c = "S" -> "s" [] c = "T" -> "t"
          [] c = "U" -> "u" [] c = "V" -> "v" [] c = "W" -> "w" [] c = "X" -> "x"
          [] c = "Y" -> "y" [] c = "Z" -> "z"]

LowerChar(c) == IF c \in DOMAIN UpperToLower THEN UpperToLower[c] ELSE c

\* str.lower()
RECURSIVE Lower(_)
Lower(s) == IF Len(s) = 0 THEN ""
            ELSE LowerChar(Char(s, 1)) \o Lower(SubSeq(s, 2, Len(s)))

\* does sub occur in s starting at position i
MatchAt(sub, s, i) == /\ i >= 1
                      /\ i + Len(sub) - 1 <= Len(s)
                      /\ SubSeq(s, i, i + Len(sub) - 1) = sub

\* Python's "sub in s"
Contains(sub, s) == \E i \in 1..Len(s) : MatchAt(sub, s, i)

\* the number of positions of s at which sub occurs
Occurrences(sub, s) == Cardinality({i \in 1..Len(s) : MatchAt(sub, s, i)})

RECURSIVE SumSeq(_)
SumSeq(xs) == IF Len(xs) = 0 THEN 0 ELSE Head(xs) + SumSeq(Tail(xs))

\* {} and defaultdict(int): a dict is a function from its keys
EmptyDict == [k \in {} |-> 0]

\* d[k] += 1 on a defaultdict(int)
Incremented(d, k) ==
    [x \in DOMAIN d \cup {k} |-> IF x = k THEN (IF k \in DOMAIN d THEN d[k] ELSE 0) + 1
                                 ELSE d[x]]

\* d.get(k, default)
Get(d, k, default) == IF k \in DOMAIN d THEN d[k] ELSE default

Min(a, b) == IF a < b THEN a ELSE b
Max(a, b) == IF a > b THEN a ELSE b

\* A float that is not an integer is the fraction num / den; float('inf') is
\* the fraction 1 / 0.
Frac(n, d) == [num |-> n, den |-> d]
Infinity == Frac(1, 0)

\* x < h for a fraction x and an integer h
FracLess(x, h) == x.den # 0 /\ x.num < h * x.den

\* a variant of MeanOrZero that takes the mean of the list whatever its length
MeanUnguarded(xs) == Frac(SumSeq(xs), Len(xs))

\* np.mean(xs) if xs else 0
MeanOrZero(xs) == IF Len(xs) = 0 THEN Frac(0, 1) ELSE Frac(SumSeq(xs), Len(xs))

RECURSIVE Gcd(_, _)
Gcd(a, b) == IF b = 0 THEN a ELSE Gcd(b, a % b)

\* the least common multiple of 1..n
RECURSIVE LcmUpTo(_)
LcmUpTo(n) == IF n <= 1 THEN 1
              ELSE LET m == LcmUpTo(n - 1) IN (m * n) \div Gcd(m, n)

\* f"{title} {body}"
Joined(t, b) == t \o " " \o b

----------------------------------------------------------------------------
(* config.py *)

ISSUE_LABELS == <<
    [label |-> "bug",           keywords |-> <<"bug", "error", "crash", "broken", "not working", "fail">>],
    [label |-> "feature",       keywords |-> <<"feature", "enhancement", "new", "add", "implement">>],
    [label |-> "documentation", keywords |-> <<"doc", "documentation", "readme", "guide", "help">>],
    [label |-> "question",      keywords |-> <<"question", "help", "how to", "support">>],
    [label |-> "performance",   keywords |-> <<"performance", "slow", "optimization", "speed">>],
    [label |-> "security",      keywords |-> <<"security", "vulnerability", "auth", "permission">>],
    [label |-> "maintenance",   keywords |-> <<"maintenance", "cleanup", "refactor", "update">>],
    [label |-> "ci/cd",         keywords |-> <<"ci", "cd", "build", "deploy", "pipeline", "test">> ] >>

PRIORITY_KEYWORDS == <<
    [keywords |-> <<"critical", "urgent", "emergency", "blocking">>, priority |-> "critical"],
    [keywords |-> <<"high", "important", "asap">>,                   priority |-> "high"],
    [keywords |-> <<"medium", "normal">>,                            priority |-> "medium"],
    [keywords |-> <<"low", "minor", "nice to have">>,                priority |-> "low"] >>

TypeLabels == {ISSUE_LABELS[i].label : i \in DOMAIN ISSUE_LABELS} \cup {"general"}

----------------------------------------------------------------------------
(* issue_bot.py: IssueClassifier *)

\* a variant of Score that counts every occurrence of every keyword
ScoreCountingOccurrences(keywords, text) ==
    SumSeq([i \in DOMAIN keywords |-> Occurrences(keywords[i], text)])

\* sum(1 for keyword in keywords if keyword in text)
Score(keywords, text) ==
    Cardinality({i \in DOMAIN keywords : Contains(keywords[i], text)})

\* the dict scores: the categories with score > 0, in the order of ISSUE_LABELS
ScoresOf(text) ==
    SelectSeq([i \in DOMAIN ISSUE_LABELS |->
                  [score |-> Score(ISSUE_LABELS[i].keywords, text),
                   label |-> ISSUE_LABELS[i].label]],
              LAMBDA e : e.score > 0)

\* max(scores, key=scores.get): the first key, in iteration order, whose value
\* no later key exceeds strictly
\* a variant of MaxFrom in which a later key replaces an equal earlier one
RECURSIVE MaxFromLastWins(_, _, _)
MaxFromLastWins(scores, i, best) ==
    IF i > Len(scores) THEN best
    ELSE MaxFromLastWins(scores, i + 1,
                         IF scores[i].score >= best.score THEN scores[i] ELSE best)

RECURSIVE MaxFrom(_, _, _)
MaxFrom(scores, i, best) ==
    IF i > Len(scores) THEN best
    ELSE MaxFrom(scores, i + 1,
                 IF scores[i].score > best.score THEN scores[i] ELSE best)

PyMax(scores) == MaxFrom(scores, 2, scores[1])

classify_issue_type(t, b) ==
    LET scores == ScoresOf(Lower(Joined(t, b)))
    IN  IF Len(scores) > 0 THEN PyMax(scores).label ELSE "general"

\* the first priority, in the order of PRIORITY_KEYWORDS, one of whose keywords
\* is in the text; 0 when there is none
\* a variant of FirstPriority that scans the lists from the last to the first
RECURSIVE LastPriority(_, _)
LastPriority(text, i) ==
    LET k == Len(PRIORITY_KEYWORDS) + 1 - i
    IN  IF k < 1 THEN 0
        ELSE IF \E n \in DOMAIN PRIORITY_KEYWORDS[k].keywords :
                    Contains(PRIORITY_KEYWORDS[k].keywords[n], text)
             THEN k
             ELSE LastPriority(text, i + 1)

RECURSIVE FirstPriority(_, _)
FirstPriority(text, i) ==
    IF i > Len(PRIORITY_KEYWORDS) THEN 0
    ELSE IF \E k \in DOMAIN PRIORITY_KEYWORDS[i].keywords :
                Contains(PRIORITY_KEYWORDS[i].keywords[k], text)
         THEN i
         ELSE FirstPriority(text, i + 1)

determine_priority(t, b) ==
    LET i == FirstPriority(Lower(Joined(t, b)), 1)
    IN  IF i = 0 THEN "medium" ELSE PRIORITY_KEYWORDS[i].priority

\* \w of the re module, on the characters the texts use
WordChars == {"a","b","c","d","e","f","g","h","i","j","k","l","m",
              "n","o","p","q","r","s","t","u","v","w","x","y","z",
              "0","1","2","3","4","5","6","7","8","9","_"}

IsWordChar(c) == LowerChar(c) \in WordChars

\* the last position of the run of word characters that starts at pos
\* (pos - 1 when the character at pos is not a word character)
RECURSIVE RunEnd(_, _)
RunEnd(s, pos) ==
    IF pos <= Len(s) /\ IsWordChar(Char(s, pos)) THEN RunEnd(s, pos + 1)
    ELSE pos - 1

\* The backtick cannot be written in a string of this language: the texts of the
\* model write the character ~ where the program's texts have a backtick.
Backtick == "~"

\* the position of the first backtick at or after from, 0 when there is none
RECURSIVE NextBacktick(_, _)
NextBacktick(s, from) ==
    IF from > Len(s) THEN 0
    ELSE IF Char(s, from) = Backtick THEN from
    ELSE NextBacktick(s, from + 1)

\* re.findall of a file pattern (backtick, one or more characters that are not
\* backticks, the extension, backtick) with re.IGNORECASE, from position pos on;
\* ext is the extension in lower case: .py, .js or .html
RECURSIVE FindallFile(_, _, _)
FindallFile(ext, s, pos) ==
    IF pos > Len(s) THEN <<>>
    ELSE LET j == NextBacktick(s, pos + 1)
         IN  IF /\ Char(s, pos) = Backtick
                /\ j # 0
                /\ j - pos - 1 >= Len(ext) + 1
                /\ Lower(SubSeq(s, j - Len(ext), j - 1)) = ext
             THEN <<SubSeq(s, pos + 1, j - 1)>> \o FindallFile(ext, s, j + 1)
             ELSE FindallFile(ext, s, pos + 1)

\* re.findall of pre, a group of one or more word characters, post, with
\* re.IGNORECASE, from position pos on,
\* pre and post literal text in lower case
RECURSIVE FindallWord(_, _, _, _)
FindallWord(pre, post, s, pos) ==
    IF pos > Len(s) THEN <<>>
    ELSE LET w == pos + Len(pre)
             e == RunEnd(s, w)
         IN  IF /\ w + Len(post) <= Len(s)
                /\ Lower(SubSeq(s, pos, w - 1)) = pre
                /\ e >= w
                /\ e + Len(post) <= Len(s)
                /\ Lower(SubSeq(s, e + 1, e + Len(post))) = post
             THEN <<SubSeq(s, w, e)>> \o FindallWord(pre, post, s, e + Len(post) + 1)
             ELSE FindallWord(pre, post, s, pos + 1)

\* the list components before duplicates are removed: the matches of the five
\* patterns, pattern after pattern
ComponentMatches(b) ==
    FindallFile(".py", b, 1) \o FindallFile(".js", b, 1) \o FindallFile(".html", b, 1)
        \o FindallWord("in ", " module", b, 1) \o FindallWord("", " component", b, 1)

\* list(set(xs)): the members of xs, each once, in the iteration order that the
\* process's hash seed gives a set of str. A seed is an order of all strings
\* that can be set members here.
ListOfSet(xs, seed) == SelectSeq(seed, LAMBDA c : c \in Range(xs))

extract_components(b, seed) == ListOfSet(ComponentMatches(b), seed)

\* blob.sentiment.polarity of TextBlob, times 100, as the fraction num / den:
\* the mean of the polarities of the words of the text that the lexicon knows,
\* 0 when it knows none
Lexicon == [w \in {"terrible", "bad", "slow", "dark", "new", "good", "great"} |->
              CASE w = "terrible" -> -100
                [] w = "bad"      -> -70
                [] w = "slow"     -> -30
                [] w = "dark"     -> -15
                [] w = "new"      -> 14
                [] w = "good"     -> 70
                [] w = "great"    -> 80]

\* the words of s: its maximal runs of word characters, in lower case
RECURSIVE WordsOf(_, _)
WordsOf(s, pos) ==
    IF pos > Len(s) THEN <<>>
    ELSE LET e == RunEnd(s, pos)
         IN  IF e >= pos THEN <<Lower(SubSeq(s, pos, e))>> \o WordsOf(s, e + 1)
             ELSE WordsOf(s, pos + 1)

Polarity(text) ==
    LET known == SelectSeq(WordsOf(text, 1), LAMBDA w : w \in DOMAIN Lexicon)
    IN  IF Len(known) = 0 THEN [num |-> 0, den |-> 1]
        ELSE [num |-> SumSeq([i \in DOMAIN known |-> Lexicon[known[i]]]),
              den |-> Len(known)]

\* the thresholds taken inclusively: polarity <= -0.3, polarity >= 0.3
analyze_sentiment_inclusive(text) ==
    LET polarity == Polarity(text)
    IN  IF polarity.num <= -30 * polarity.den THEN "negative"
        ELSE IF polarity.num >= 30 * polarity.den THEN "positive"
        ELSE "neutral"

\* polarity < -0.3, polarity > 0.3
analyze_sentiment(text) ==
    LET polarity == Polarity(text)
    IN  IF polarity.num < -30 * polarity.den THEN "negative"
        ELSE IF polarity.num > 30 * polarity.den THEN "positive"
        ELSE "neutral"

----------------------------------------------------------------------------
(* The inputs of the model *)

Titles == {"Bug: crash", "Add dark mode", "Help", "hello", "URGENT bug bug"}

Bodies == {"",
           "it crashes on click",
           "slow build, minor",
           "terrible error in ~app.py~ ~ui.js~ in auth module db component",
           "the auth component in auth module",
           "new feature: add speed test test",
           "terrible, bad",
           "asap, low",
           "normal, minor nit",
           "slow performance bug",
           "great idea, great team, bad docs"}

\* every string extract_components can capture from a body of the model
ComponentUniverse == UNION {Range(ComponentMatches(b)) : b \in Bodies}

\* the orders of a finite set
Orders(S) == {f \in [1..Cardinality(S) -> S] : \A x \in S : \E i \in DOMAIN f : f[i] = x}

\* the hash seeds a process can start with: every iteration order of the strings
Seeds == Orders(ComponentUniverse)

\* the threads of the server
Workers == {1, 2}

\* the payload of a request body that is not a JSON object
NoPayload == [title |-> "", body |-> "", action |-> "", missing |-> ""]

\* request.data and what request.get_json() makes of it
NoData == [json |-> "none", payload |-> NoPayload]

\* hmac.new(key, msg, hashlib.sha256).hexdigest(): the digest is taken to be
\* equal only for an equal key and an equal message
Hmac(key, msg) == [key |-> key, msg |-> msg]
NoMac == Hmac("", NoData)

\* no request
NoRequest ==
    [signature |-> [present |-> FALSE, ascii |-> TRUE, prefix |-> "", mac |-> NoMac],
     event |-> "", data |-> NoData]

\* the locals of a thread that handles no request
IdleHook ==
    [title |-> "", body |-> "", i |-> 1, priority |-> "",
     pc |-> "idle", req |-> NoRequest,
     labels_to_add |-> <<>>, issue_type |-> "", components |-> <<>>,
     calls |-> <<>>, invoked |-> <<>>, status |-> 0, message |-> ""]

\* the idle values of the variables of the webhook server and the host
HookIdle ==
    /\ secret = None
    /\ active = {}
    /\ hook = [w \in Workers |-> IdleHook]
    /\ deliveries = 0
    /\ repo_labels = {} /\ issue_labels = {} /\ issue_comments = <<>> /\ pr_labels = {}

\* the idle values of the variables of the health scorer
HealthIdle ==
    /\ health_pc = "idle"
    /\ basic_stats = EmptyDict /\ commit_activity = EmptyDict
    /\ issue_stats = EmptyDict /\ pr_stats = EmptyDict
    /\ score = 0 /\ health_score = 0
    /\ fetch_fails = {}
    /\ repo_issues = <<>> /\ repo_pulls = <<>>

\* no call to the host was recorded
NoCall == [by |-> None, checked |-> FALSE, seen |-> 0, reset_seen |-> 0,
           waited |-> FALSE, quota |-> 0, at |-> 0]

\* get_comprehensive_report was not called
NoReport ==
    [basic_stats |-> EmptyDict, commit_activity |-> EmptyDict, health_score |-> 0,
     pc |-> "idle", issue_analytics |-> EmptyDict,
     pr_analytics |-> EmptyDict, disturbed |-> FALSE]

ReportIdle == report = NoReport /\ report_host = ""

\* the idle values of the variables of the other endpoints and of the dashboard
ServeIdle ==
    /\ health_status = None /\ dash_status = None
    /\ remaining = 0 /\ reset = 0 /\ clock = 0 /\ last_call = NoCall
    /\ stat_repos = <<>> /\ stat_seen = <<>> /\ stat_result = EmptyDict /\ stat_status = 0
    /\ ReportIdle

MaxRuns == 2

----------------------------------------------------------------------------
(* The classifier, called on one (title, body) by one process after another *)

\* what the methods of IssueClassifier compute from the text alone, for every
\* input of the model (evaluated once): the type, the priority, the sentiment,
\* the list of component matches before list(set(...)), and the dict scores of
\* classify_issue_type as the function category index -> score
TextResults ==
    [t \in Titles, b \in Bodies |->
        [type      |-> classify_issue_type(t, b),
         priority  |-> determine_priority(t, b),
         text      |-> Lower(Joined(t, b)),
         scores    |-> [i \in DOMAIN ISSUE_LABELS |->
                           Score(ISSUE_LABELS[i].keywords, Lower(Joined(t, b)))],
         sentiment |-> analyze_sentiment(Joined(t, b)),
         matches   |-> ComponentMatches(b)]]

\* components[:3]
First3(xs) == SubSeq(xs, 1, IF Len(xs) < 3 THEN Len(xs) ELSE 3)

\* what the four methods of IssueClassifier return for (t, b) in a process
\* whose hash seed is seed
Classification(t, b, seed) ==
    LET r == TextResults[t, b]
    IN  [type       |-> r.type,
         priority   |-> r.priority,
         scores     |-> r.scores,
         components |-> ListOfSet(r.matches, seed),
         sentiment  |-> r.sentiment]

InitClassify ==
    /\ title \in Titles
    /\ body \in Bodies
    /\ hashSeed \in Seeds
    /\ cls = NoResult
    /\ prev = NoResult
    /\ runs = 1
    /\ additions = 0 /\ deletions = 0 /\ size_label = None /\ pr_sizes = EmptyDict
    /\ HealthIdle
    /\ ServeIdle
    /\ HookIdle

\* the four methods are called on (title, body)
Classify ==
    /\ cls' = Classification(title, body, hashSeed)
    /\ prev' = cls
    /\ UNCHANGED <<title, body, hashSeed, runs>>
    /\ UNCHANGED <<sizeVars, healthVars, hookVars, serveVars>>

\* the process ends and a new one starts: the interpreter draws a new hash seed
Restart ==
    /\ runs < MaxRuns
    /\ runs' = runs + 1
    /\ hashSeed' \in Seeds
    /\ UNCHANGED <<title, body, cls, prev>>
    /\ UNCHANGED <<sizeVars, healthVars, hookVars, serveVars>>

NextClassify == Classify \/ Restart

SpecClassify == InitClassify /\ [][NextClassify]_vars

----------------------------------------------------------------------------
(* Properties of the classifier *)

Classified == cls # NoResult

\* the lower-cased text the classifier matched the keywords against
TextNow == TextResults[title, body].text

MaxScoreNow ==
    CHOOSE m \in Range(cls.scores) : \A i \in DOMAIN cls.scores : cls.scores[i] <= m

\* C3: classify_issue_type returns "general" when every category scores zero,
\* and otherwise the category declared first in the taxonomy among those
\* with the highest score.
C3_FirstHighestCategory ==
    Classified =>
        IF \A i \in DOMAIN cls.scores : cls.scores[i] = 0
        THEN cls.type = "general"
        ELSE \E i \in DOMAIN ISSUE_LABELS :
                /\ cls.type = ISSUE_LABELS[i].label
                /\ cls.scores[i] = MaxScoreNow
                /\ \A j \in 1..(i - 1) : cls.scores[j] < MaxScoreNow

\* two categories share the highest score, which is not zero, and the
\* classifier has answered
C3_Witness ==
    /\ Classified
    /\ MaxScoreNow > 0
    /\ \E i, j \in DOMAIN cls.scores :
          i < j /\ cls.scores[i] = MaxScoreNow /\ cls.scores[j] = MaxScoreNow
                /\ cls.type = ISSUE_LABELS[i].label

\* C4, as claimed: the score of a category is the number of occurrences of
\* its keywords in the text, a keyword that appears k times counting k.
C4_ScoreCountsOccurrences ==
    Classified =>
        \A i \in DOMAIN ISSUE_LABELS :
            cls.scores[i] =
                SumSeq([k \in DOMAIN ISSUE_LABELS[i].keywords |->
                           Occurrences(ISSUE_LABELS[i].keywords[k], TextNow)])

\* C4, amended: the score of a category is the number of its keywords that
\* occur at least once in the lower-cased text; a keyword that appears
\* k >= 1 times counts 1.
C4_ScoreCountsKeywords ==
    Classified =>
        \A i \in DOMAIN ISSUE_LABELS :
            cls.scores[i] =
                Cardinality({k \in DOMAIN ISSUE_LABELS[i].keywords :
                                Occurrences(ISSUE_LABELS[i].keywords[k], TextNow) >= 1})

\* a keyword occurs more than once in a classified text
C4_Witness ==
    /\ Classified
    /\ \E i \in DOMAIN ISSUE_LABELS : \E k \in DOMAIN ISSUE_LABELS[i].keywords :
          Occurrences(ISSUE_LABELS[i].keywords[k], TextNow) >= 2

PriorityHit(i) ==
    \E k \in DOMAIN PRIORITY_KEYWORDS[i].keywords :
        Occurrences(PRIORITY_KEYWORDS[i].keywords[k], TextNow) >= 1

\* C5: determine_priority returns the first of critical, high, medium, low
\* one of whose keywords occurs in the lower-cased text, "medium" when no
\* priority keyword occurs, and so "critical" for every text with "urgent".
C5_FirstPriorityWins ==
    Classified =>
        /\ <<PRIORITY_KEYWORDS[1].priority, PRIORITY_KEYWORDS[2].priority,
             PRIORITY_KEYWORDS[3].priority, PRIORITY_KEYWORDS[4].priority>>
               = <<"critical", "high", "medium", "low">>
        /\ (\A i \in DOMAIN PRIORITY_KEYWORDS : ~PriorityHit(i)) => cls.priority = "medium"
        /\ \A i \in DOMAIN PRIORITY_KEYWORDS :
              (PriorityHit(i) /\ \A j \in 1..(i - 1) : ~PriorityHit(j))
                  => cls.priority = PRIORITY_KEYWORDS[i].priority
        /\ Occurrences("urgent", TextNow) >= 1 => cls.priority = "critical"

\* a classified text holds "urgent" and a keyword of a lower priority
C5_Witness ==
    /\ Classified
    /\ Occurrences("urgent", TextNow) >= 1
    /\ PriorityHit(4)
    /\ cls.priority = "critical"

\* C6, as claimed: two classifications of the same (title, body), in the same
\* run or in different runs, return the same type, priority, sentiment and
\* list of components.
C6_Deterministic ==
    (Classified /\ prev # NoResult) =>
        /\ cls.type = prev.type
        /\ cls.priority = prev.priority
        /\ cls.sentiment = prev.sentiment
        /\ cls.components = prev.components

\* the members of xs, each once, in the order of their first occurrence
RECURSIVE InOrderOnce(_)
InOrderOnce(xs) ==
    IF Len(xs) = 0 THEN <<>>
    ELSE LET front == InOrderOnce(SubSeq(xs, 1, Len(xs) - 1))
             last  == xs[Len(xs)]
         IN  IF last \in Range(front) THEN front ELSE Append(front, last)

\* C7, as claimed: extract_components returns the captured groups without
\* duplicates, and the first 3 of them are the first 3 in the order of the
\* pattern list, then of the matches within the body.
C7_PatternThenMatchOrder ==
    Classified =>
        /\ Cardinality(Range(cls.components)) = Len(cls.components)
        /\ Range(cls.components) = Range(ComponentMatches(body))
        /\ First3(cls.components) = First3(InOrderOnce(ComponentMatches(body)))

----------------------------------------------------------------------------
(* Pull-request size: the labeler of issue_bot.py and the bucket of analytics.py *)

\* a variant of PrSizeLabel whose bands include their upper limit
PrSizeLabelInclusive(total_changes) ==
    IF total_changes <= 20 THEN "size:small"
    ELSE IF total_changes <= 100 THEN "size:medium"
    ELSE IF total_changes <= 500 THEN "size:large"
    ELSE "size:xl"

\* the if / elif chain of _determine_pr_size
PrSizeLabel(total_changes) ==
    IF total_changes < 20 THEN "size:small"
    ELSE IF total_changes < 100 THEN "size:medium"
    ELSE IF total_changes < 500 THEN "size:large"
    ELSE "size:xl"

\* a variant of PrSizeBucket whose first band ends at 50
PrSizeBucketDrifted(total_changes) ==
    IF total_changes < 50 THEN "small"
    ELSE IF total_changes < 100 THEN "medium"
    ELSE IF total_changes < 500 THEN "large"
    ELSE "xl"

\* the if / elif chain of get_pull_request_analytics
PrSizeBucket(total_changes) ==
    IF total_changes < 20 THEN "small"
    ELSE IF total_changes < 100 THEN "medium"
    ELSE IF total_changes < 500 THEN "large"
    ELSE "xl"

MaxChange == 260

InitSize ==
    /\ additions \in 0..MaxChange
    /\ deletions \in 0..MaxChange
    /\ size_label = None
    /\ pr_sizes = EmptyDict
    /\ title = "hello" /\ body = "" /\ hashSeed = <<>>
    /\ cls = NoResult /\ prev = NoResult /\ runs = 1
    /\ HealthIdle
    /\ ServeIdle
    /\ HookIdle

\* _determine_pr_size(pr)
DeterminePrSize ==
    /\ size_label = None
    /\ size_label' = PrSizeLabel(additions + deletions)
    /\ UNCHANGED <<additions, deletions, pr_sizes>>
    /\ UNCHANGED <<classVars, healthVars, hookVars, serveVars>>

\* one turn of the loop "for pr in pulls" of get_pull_request_analytics
CategorizeBySize ==
    /\ pr_sizes = EmptyDict
    /\ pr_sizes' = Incremented(pr_sizes, PrSizeBucket(additions + deletions))
    /\ UNCHANGED <<additions, deletions, size_label>>
    /\ UNCHANGED <<classVars, healthVars, hookVars, serveVars>>

NextSize == DeterminePrSize \/ CategorizeBySize

SpecSize == InitSize /\ [][NextSize]_vars

\* C8: the size label is a function of total = additions + deletions:
\* below 20 small, from 20 below 100 medium, from 100 below 500 large, from
\* 500 on xl; 19, 20, 99, 100, 499 and 500 fall on the stated side.
C8_SizeBands ==
    size_label # None =>
        LET total == additions + deletions
        IN  /\ total < 20 <=> size_label = "size:small"
            /\ (20 <= total /\ total < 100) <=> size_label = "size:medium"
            /\ (100 <= total /\ total < 500) <=> size_label = "size:large"
            /\ total >= 500 <=> size_label = "size:xl"
            /\ total = 19 => size_label = "size:small"
            /\ total \in {20, 99} => size_label = "size:medium"
            /\ total \in {100, 499} => size_label = "size:large"
            /\ total = 500 => size_label = "size:xl"

\* a pull request of exactly 500 changed lines has got its label
C8_Witness == additions + deletions = 500 /\ size_label = "size:xl"

\* C9: for every (additions, deletions) the bucket b that analytics counts the
\* pull request in and the label of the labeler are the same band:
\* label = "size:" + b.
C9_BucketAgreesWithLabel ==
    (size_label # None /\ pr_sizes # EmptyDict) =>
        /\ Cardinality(DOMAIN pr_sizes) = 1
        /\ \A b \in DOMAIN pr_sizes : pr_sizes[b] = 1 /\ size_label = "size:" \o b

\* a pull request on a band limit has been labelled and counted
C9_Witness ==
    /\ additions + deletions = 20
    /\ size_label = "size:medium"
    /\ pr_sizes = Incremented(EmptyDict, "medium")

----------------------------------------------------------------------------
(* analytics.py: RepositoryAnalyzer.calculate_health_score and its fetchers *)

\* the longest list of issues, and of pull requests, the host returns
MaxRecords == 2

\* Scores are kept as integers, in units of 1 / ScoreUnit: every rate is a
\* fraction whose denominator is the length of a list, which divides ScoreUnit.
ScoreUnit == LcmUpTo(MaxRecords)

\* what the host can hold: the repository's fields that get_basic_stats reads
\* and the scorer uses
Repositories ==
    [description : {None, "", "A repository assistant"},
     stars : {0, 10, 11},
     forks : {0, 5, 6}]

\* the numbers of commits of the last 30 days
CommitCounts == {0, 1, 15, 16, 40}

\* An issue of the host: times are hours after created_at; closed_at and
\* comments are lists of at most one time (no closed_at, no comment: empty).
Issues ==
    {[state |-> "open", closed_at |-> <<>>, comments |-> c] :
         c \in {<<>>, <<12>>, <<36>>, <<100>>}}
    \cup {[state |-> "closed", closed_at |-> <<48>>, comments |-> c] :
         c \in {<<>>, <<12>>, <<36>>, <<100>>}}

\* A pull request of the host: merged_at is a list of at most one time.
Pulls ==
    {[state |-> "open", merged_at |-> <<>>], [state |-> "closed", merged_at |-> <<>>]}
    \cup {[state |-> "closed", merged_at |-> <<m>>] : m \in {24, 100, 200}}

\* the lists of at most MaxRecords members of S
ListsOf(S) == UNION {[1..n -> S] : n \in 0..MaxRecords}

\* the first time in the field of each member of xs that has one, in order
RECURSIVE TimesOf(_, _)
TimesOf(xs, field) ==
    IF Len(xs) = 0 THEN <<>>
    ELSE (IF Len(Head(xs)[field]) > 0 THEN <<Head(xs)[field][1]>> ELSE <<>>)
             \o TimesOf(Tail(xs), field)

\* the dict of get_basic_stats (the keys the scorer reads)
get_basic_stats(repo) ==
    [description |-> repo.description, stars |-> repo.stars, forks |-> repo.forks]

\* the dict of get_commit_activity (the key the scorer reads)
get_commit_activity(commits) == [total_commits |-> commits]

\* the dict of get_issue_analytics (counts, rate and averages)
get_issue_analytics(issues) ==
    LET open_issues    == SelectSeq(issues, LAMBDA i : i.state = "open")
        closed_issues  == SelectSeq(issues, LAMBDA i : i.state = "closed")
        close_times    == TimesOf(closed_issues, "closed_at")
        response_times == TimesOf(issues, "comments")
    IN  [open_issues   |-> Len(open_issues),
         closed_issues |-> Len(closed_issues),
         total_issues  |-> Len(issues),
         close_rate    |-> IF Len(issues) > 0
                           THEN Frac(Len(closed_issues) * 100, Len(issues))
                           ELSE Frac(0, 1),
         avg_close_time_hours    |-> MeanOrZero(close_times),
         avg_response_time_hours |-> MeanOrZero(response_times)]

\* the dict of get_pull_request_analytics (counts, rate and average)
get_pull_request_analytics(pulls) ==
    LET open_prs    == SelectSeq(pulls, LAMBDA p : p.state = "open")
        merged_prs  == SelectSeq(pulls, LAMBDA p : Len(p.merged_at) > 0)
        merge_times == TimesOf(pulls, "merged_at")
    IN  [open_prs   |-> Len(open_prs),
         merged_prs |-> Len(merged_prs),
         total_prs  |-> Len(pulls),
         merge_rate |-> IF Len(pulls) > 0
                        THEN Frac(Len(merged_prs) * 100, Len(pulls))
                        ELSE Frac(0, 1),
         avg_merge_time_hours |-> MeanOrZero(merge_times)]

\* the four fetches of calculate_health_score
Fetches == {"basic_stats", "commit_activity", "issue_stats", "pr_stats"}

\* the dicts each fetcher can build from what the host holds
BasicStatsDicts == {get_basic_stats(r) : r \in Repositories}
CommitActivityDicts == {get_commit_activity(n) : n \in CommitCounts}
IssueAnalyticsDicts == {get_issue_analytics(l) : l \in ListsOf(Issues)}
PullAnalyticsDicts == {get_pull_request_analytics(l) : l \in ListsOf(Pulls)}

\* a variant of FetchReturns without the except clauses: a fetch that raises
\* returns nothing
FetchUncaught(name, fails, dicts) == IF name \in fails THEN {} ELSE dicts

\* try ... except Exception: return {} of a fetcher: what the fetcher name can
\* return when the fetches in fails raise
FetchReturns(name, fails, dicts) == IF name \in fails THEN {EmptyDict} ELSE dicts

BasicStatsResults(fails) == FetchReturns("basic_stats", fails, BasicStatsDicts)
CommitActivityResults(fails) == FetchReturns("commit_activity", fails, CommitActivityDicts)
IssueAnalyticsResults(fails) == FetchReturns("issue_stats", fails, IssueAnalyticsDicts)
PullAnalyticsResults(fails) == FetchReturns("pr_stats", fails, PullAnalyticsDicts)

\* bool(x) of a description
Truthy(x) == x \notin {None, ""}

\* rate * weight for a rate in percent and a weight in hundredths, in units of
\* 1 / ScoreUnit
Weighted(rate, hundredths) == (rate.num * hundredths * ScoreUnit) \div (100 * rate.den)

\* lines 242-248: what the basic metrics add to score
BasicPoints(stats) ==
    (IF Truthy(Get(stats, "description", None)) THEN 5 ELSE 0)
    + (IF Get(stats, "stars", 0) > 10 THEN 5 ELSE 0)
    + (IF Get(stats, "forks", 0) > 5 THEN 5 ELSE 0)

\* a variant of CommitPoints without the cap
CommitPointsUncapped(activity) == Get(activity, "total_commits", 0)

\* lines 251-254: what the recent commits add to score
CommitPoints(activity) ==
    LET recent_commits == Get(activity, "total_commits", 0)
    IN  IF recent_commits > 0 THEN Min(15, recent_commits) ELSE 0

\* a variant of IssuePoints whose default for a missing response time is 0
IssuePointsDefaultZero(stats) ==
    LET close_rate    == Get(stats, "close_rate", Frac(0, 1))
        response_time == Get(stats, "avg_response_time_hours", Frac(0, 1))
    IN  Min(15 * ScoreUnit, Weighted(close_rate, 15))
        + ScoreUnit * (IF FracLess(response_time, 24) THEN 10
                       ELSE IF FracLess(response_time, 72) THEN 5
                       ELSE 0)

\* a variant of IssuePoints that takes an average of 0 for "no data" and
\* gives it no points
IssuePointsZeroUnscored(stats) ==
    LET close_rate    == Get(stats, "close_rate", Frac(0, 1))
        response_time == Get(stats, "avg_response_time_hours", Infinity)
    IN  Min(15 * ScoreUnit, Weighted(close_rate, 15))
        + ScoreUnit * (IF response_time.num = 0 THEN 0
                       ELSE IF FracLess(response_time, 24) THEN 10
                       ELSE IF FracLess(response_time, 72) THEN 5
                       ELSE 0)

\* lines 257-265: what issue management adds to score, in units of 1 / ScoreUnit
IssuePoints(stats) ==
    LET close_rate    == Get(stats, "close_rate", Frac(0, 1))
        response_time == Get(stats, "avg_response_time_hours", Infinity)
    IN  Min(15 * ScoreUnit, Weighted(close_rate, 15))
        + ScoreUnit * (IF FracLess(response_time, 24) THEN 10
                       ELSE IF FracLess(response_time, 72) THEN 5
                       ELSE 0)

\* lines 268-276: what pull-request management adds to score, in the same units
PullPoints(stats) ==
    LET merge_rate == Get(stats, "merge_rate", Frac(0, 1))
        merge_time == Get(stats, "avg_merge_time_hours", Infinity)
    IN  Min(10 * ScoreUnit, Weighted(merge_rate, 10))
        + ScoreUnit * (IF FracLess(merge_time, 48) THEN 10
                       ELSE IF FracLess(merge_time, 168) THEN 5
                       ELSE 0)

\* calculate_health_score on the four dicts its fetchers returned:
\* the sum of the points, and return min(100, max(0, score))
HealthScoreOn(b, c, i, p) ==
    Min(100 * ScoreUnit,
        Max(0, ScoreUnit * BasicPoints(b) + ScoreUnit * CommitPoints(c)
               + IssuePoints(i) + PullPoints(p)))

InitHealth ==
    /\ HealthIdle
    /\ ServeIdle
    /\ title = "hello" /\ body = "" /\ hashSeed = <<>>
    /\ cls = NoResult /\ prev = NoResult /\ runs = 1
    /\ additions = 0 /\ deletions = 0 /\ size_label = None /\ pr_sizes = EmptyDict
    /\ HookIdle

\* calculate_health_score is called: score = 0. Which of its fetches will raise
\* is the host's choice.
StartHealthScore ==
    /\ health_pc = "idle"
    /\ health_pc' = "basic"
    /\ score' = 0
    /\ fetch_fails' \in SUBSET Fetches
    /\ UNCHANGED <<basic_stats, commit_activity, issue_stats, pr_stats, health_score>>
    /\ UNCHANGED <<repo_issues, repo_pulls>>
    /\ UNCHANGED <<classVars, sizeVars, hookVars, serveVars>>

\* basic_stats = self.get_basic_stats() and the three tests on it
ScoreBasicStats ==
    /\ health_pc = "basic"
    /\ \E r \in BasicStatsResults(fetch_fails) :
          /\ basic_stats' = r
          /\ score' = score + ScoreUnit * BasicPoints(r)
    /\ health_pc' = "commits"
    /\ UNCHANGED <<commit_activity, issue_stats, pr_stats, health_score, fetch_fails>>
    /\ UNCHANGED <<repo_issues, repo_pulls>>
    /\ UNCHANGED <<classVars, sizeVars, hookVars, serveVars>>

\* commit_activity = self.get_commit_activity(30) and the points for it
ScoreCommitActivity ==
    /\ health_pc = "commits"
    /\ \E r \in CommitActivityResults(fetch_fails) :
          /\ commit_activity' = r
          /\ score' = score + ScoreUnit * CommitPoints(r)
    /\ health_pc' = "issues"
    /\ UNCHANGED <<basic_stats, issue_stats, pr_stats, health_score, fetch_fails>>
    /\ UNCHANGED <<repo_issues, repo_pulls>>
    /\ UNCHANGED <<classVars, sizeVars, hookVars, serveVars>>

\* issue_stats = self.get_issue_analytics() and the points for it
ScoreIssueStats ==
    /\ health_pc = "issues"
    /\ \E r \in IssueAnalyticsResults(fetch_fails) :
          /\ issue_stats' = r
          /\ score' = score + IssuePoints(r)
    /\ health_pc' = "pulls"
    /\ UNCHANGED <<basic_stats, commit_activity, pr_stats, health_score, fetch_fails>>
    /\ UNCHANGED <<repo_issues, repo_pulls>>
    /\ UNCHANGED <<classVars, sizeVars, hookVars, serveVars>>

\* pr_stats = self.get_pull_request_analytics(), the points for it, and
\* return min(100, max(0, score))
ScorePullStats ==
    /\ health_pc = "pulls"
    /\ \E r \in PullAnalyticsResults(fetch_fails) :
          /\ pr_stats' = r
          /\ score' = score + PullPoints(r)
    /\ health_score' = Min(100 * ScoreUnit, Max(0, score'))
    /\ health_pc' = "returned"
    /\ UNCHANGED <<basic_stats, commit_activity, issue_stats, fetch_fails>>
    /\ UNCHANGED <<repo_issues, repo_pulls>>
    /\ UNCHANGED <<classVars, sizeVars, hookVars, serveVars>>

\* app.py: GET /health; dashboard.py: display_health_score

\* the bucketing with the second threshold excluded: "good" only above 75
HealthStatusStrict(s) ==
    IF s >= 90 * ScoreUnit THEN "excellent"
    ELSE IF s > 75 * ScoreUnit THEN "good"
    ELSE IF s >= 60 * ScoreUnit THEN "fair"
    ELSE "poor"

\* health(): the if / elif chain that sets status from health_score
HealthStatus(s) ==
    IF s >= 90 * ScoreUnit THEN "excellent"
    ELSE IF s >= 75 * ScoreUnit THEN "good"
    ELSE IF s >= 60 * ScoreUnit THEN "fair"
    ELSE "poor"

\* display_health_score(score): the status it writes into the metric card
display_health_score(s) ==
    IF s >= 90 * ScoreUnit THEN "Excellent"
    ELSE IF s >= 75 * ScoreUnit THEN "Good"
    ELSE IF s >= 60 * ScoreUnit THEN "Fair"
    ELSE "Poor"

\* health(), after calculate_health_score() has returned: the status of the answer
HealthAnswer ==
    /\ health_pc = "returned"
    /\ health_status = None
    /\ health_status' = HealthStatus(health_score)
    /\ UNCHANGED <<dash_status, quotaVars, statVars, reportVars>>
    /\ UNCHANGED <<classVars, sizeVars, healthVars, hookVars>>

\* the dashboard shows the health_score of the report it loaded
DisplayHealthScore ==
    /\ health_pc = "returned"
    /\ dash_status = None
    /\ dash_status' = display_health_score(health_score)
    /\ UNCHANGED <<health_status, quotaVars, statVars, reportVars>>
    /\ UNCHANGED <<classVars, sizeVars, healthVars, hookVars>>

NextHealth ==
    \/ StartHealthScore
    \/ ScoreBasicStats
    \/ ScoreCommitActivity
    \/ ScoreIssueStats
    \/ ScorePullStats

SpecHealth == InitHealth /\ [][NextHealth]_vars

\* GET /health and the dashboard: the scorer runs, then its score is shown
NextHealthEndpoint ==
    \/ NextHealth
    \/ HealthAnswer
    \/ DisplayHealthScore

SpecHealthEndpoint == InitHealth /\ [][NextHealthEndpoint]_vars

\* the eight inputs of the health formula, as calculate_health_score read them
\* from the dicts it fetched
HasDescription == Truthy(Get(basic_stats, "description", None))
StarsRead == Get(basic_stats, "stars", 0)
ForksRead == Get(basic_stats, "forks", 0)
CommitsRead == Get(commit_activity, "total_commits", 0)
CloseRateRead == Get(issue_stats, "close_rate", Frac(0, 1))
ResponseTimeRead == Get(issue_stats, "avg_response_time_hours", Infinity)
MergeRateRead == Get(pr_stats, "merge_rate", Frac(0, 1))
MergeTimeRead == Get(pr_stats, "avg_merge_time_hours", Infinity)

\* the sum of the eight contributions, in units of 1 / ScoreUnit
ContributionSum ==
    ScoreUnit * ( (IF HasDescription THEN 5 ELSE 0)
                + (IF StarsRead > 10 THEN 5 ELSE 0)
                + (IF ForksRead > 5 THEN 5 ELSE 0)
                + Min(CommitsRead, 15)
                + (IF FracLess(ResponseTimeRead, 24) THEN 10
                   ELSE IF FracLess(ResponseTimeRead, 72) THEN 5 ELSE 0)
                + (IF FracLess(MergeTimeRead, 48) THEN 10
                   ELSE IF FracLess(MergeTimeRead, 168) THEN 5 ELSE 0) )
    + Min(15 * ScoreUnit, (CloseRateRead.num * 15 * ScoreUnit) \div (CloseRateRead.den * 100))
    + Min(10 * ScoreUnit, (MergeRateRead.num * 10 * ScoreUnit) \div (MergeRateRead.den * 100))

WorstCaseInputs ==
    /\ ~HasDescription /\ StarsRead = 0 /\ ForksRead = 0 /\ CommitsRead = 0
    /\ CloseRateRead.num = 0 /\ MergeRateRead.num = 0
    /\ ResponseTimeRead = Infinity /\ MergeTimeRead = Infinity

-----------------------------------------------------------------------------
(* analytics.py: get_issue_analytics and get_pull_request_analytics on the
   lists of the host *)

\* the issues the host can return to get_issue_analytics: those of Issues, a
\* closed issue without closed_at, and closed issues with other close times
AnalyticsIssues ==
    Issues
    \cup {[state |-> "closed", closed_at |-> <<>>, comments |-> <<>>],
          [state |-> "closed", closed_at |-> <<10>>, comments |-> <<12>>],
          [state |-> "closed", closed_at |-> <<5>>, comments |-> <<>>]}

InitAnalytics ==
    /\ health_pc = "idle"
    /\ basic_stats = EmptyDict /\ commit_activity = EmptyDict
    /\ issue_stats = EmptyDict /\ pr_stats = EmptyDict
    /\ score = 0 /\ health_score = 0
    /\ fetch_fails \in SUBSET {"issue_stats", "pr_stats"}
    /\ repo_issues \in ListsOf(AnalyticsIssues)
    /\ repo_pulls \in ListsOf(Pulls)
    /\ title = "hello" /\ body = "" /\ hashSeed = <<>>
    /\ cls = NoResult /\ prev = NoResult /\ runs = 1
    /\ additions = 0 /\ deletions = 0 /\ size_label = None /\ pr_sizes = EmptyDict
    /\ HookIdle
    /\ ServeIdle

\* get_issue_analytics() is called and returns
GetIssueAnalytics ==
    /\ issue_stats' \in FetchReturns("issue_stats", fetch_fails,
                                     {get_issue_analytics(repo_issues)})
    /\ UNCHANGED <<health_pc, basic_stats, commit_activity, pr_stats, score, health_score,
                   fetch_fails, repo_issues, repo_pulls>>
    /\ UNCHANGED <<classVars, sizeVars, hookVars, serveVars>>

\* get_pull_request_analytics() is called and returns
GetPullRequestAnalytics ==
    /\ pr_stats' \in FetchReturns("pr_stats", fetch_fails,
                                  {get_pull_request_analytics(repo_pulls)})
    /\ UNCHANGED <<health_pc, basic_stats, commit_activity, issue_stats, score, health_score,
                   fetch_fails, repo_issues, repo_pulls>>
    /\ UNCHANGED <<classVars, sizeVars, hookVars, serveVars>>

NextAnalytics == GetIssueAnalytics \/ GetPullRequestAnalytics

SpecAnalytics == InitAnalytics /\ [][NextAnalytics]_vars

\* the sum of f over the members of the finite set S
RECURSIVE SumOver(_, _)
SumOver(S, f) ==
    IF S = {} THEN 0
    ELSE LET x == CHOOSE y \in S : TRUE IN f[x] + SumOver(S \ {x}, f)

\* the fraction a is the mean of the values f[k] for k in S, and 0 when S is
\* empty; it is a number
IsMeanOver(a, S, f) ==
    /\ a.den # 0
    /\ a.num * Cardinality(S) = SumOver(S, f) * a.den
    /\ S = {} => a.num = 0

\* the fraction r is the percentage of part in whole, and 0 when whole is 0
IsRateOf(r, part, whole) ==
    /\ r.den # 0
    /\ r.num * whole = 100 * part * r.den
    /\ whole = 0 => r.num = 0

\* the records with the timestamp pair of each average
ClosedWithTime ==
    {k \in DOMAIN repo_issues :
        repo_issues[k].state = "closed" /\ repo_issues[k].closed_at # <<>>}
Commented == {k \in DOMAIN repo_issues : repo_issues[k].comments # <<>>}
Merged == {k \in DOMAIN repo_pulls : repo_pulls[k].merged_at # <<>>}

\* C20: avg_close_time_hours, avg_response_time_hours and
\* avg_merge_time_hours are means over only the records that have the
\* timestamp pair (closed issues with closed_at, issues with at least one
\* comment, pull requests with merged_at), and each is 0 when that subset is
\* empty; close_rate is 0 when there are no issues and merge_rate is 0 when
\* there are no pull requests. No input list, the empty one included, causes
\* a division fault.
C20_AveragesOverSubsets ==
    /\ issue_stats # EmptyDict =>
          /\ IsMeanOver(issue_stats.avg_close_time_hours, ClosedWithTime,
                        [k \in ClosedWithTime |-> repo_issues[k].closed_at[1]])
          /\ IsMeanOver(issue_stats.avg_response_time_hours, Commented,
                        [k \in Commented |-> repo_issues[k].comments[1]])
          /\ IsRateOf(issue_stats.close_rate,
                      Cardinality({k \in DOMAIN repo_issues : repo_issues[k].state = "closed"}),
                      Len(repo_issues))
    /\ pr_stats # EmptyDict =>
          /\ IsMeanOver(pr_stats.avg_merge_time_hours, Merged,
                        [k \in Merged |-> repo_pulls[k].merged_at[1]])
          /\ IsRateOf(pr_stats.merge_rate, Cardinality(Merged), Len(repo_pulls))

\* both fetchers returned: for two issues of which one was closed, without
\* closed_at, and neither has a comment, and for no pull request
C20_Witness ==
    /\ issue_stats # EmptyDict /\ pr_stats # EmptyDict
    /\ Len(repo_issues) = 2 /\ ClosedWithTime = {} /\ Commented = {}
    /\ issue_stats.closed_issues = 1
    /\ issue_stats.avg_close_time_hours = Frac(0, 1)
    /\ repo_pulls = <<>>
    /\ pr_stats.merge_rate = Frac(0, 1)

\* 10 below the first limit, 5 below the second, else 0
TimePoints(t, first, second) ==
    IF FracLess(t, first) THEN 10 ELSE IF FracLess(t, second) THEN 5 ELSE 0

\* what the signals of the fetch name contribute when the fetch succeeded, from
\* the dict it returned, in units of 1 / ScoreUnit
SignalPoints(name) ==
    CASE name = "basic_stats" ->
             ScoreUnit * ( (IF Truthy(basic_stats.description) THEN 5 ELSE 0)
                         + (IF basic_stats.stars > 10 THEN 5 ELSE 0)
                         + (IF basic_stats.forks > 5 THEN 5 ELSE 0) )
      [] name = "commit_activity" ->
             ScoreUnit * Min(15, commit_activity.total_commits)
      [] name = "issue_stats" ->
             Min(15 * ScoreUnit, Weighted(issue_stats.close_rate, 15))
             + ScoreUnit * TimePoints(issue_stats.avg_response_time_hours, 24, 72)
      [] name = "pr_stats" ->
             Min(10 * ScoreUnit, Weighted(pr_stats.merge_rate, 10))
             + ScoreUnit * TimePoints(pr_stats.avg_merge_time_hours, 48, 168)

\* the sum of SignalPoints over the fetches of the sequence names that did not fail
RECURSIVE PointsOfSucceeded(_)
PointsOfSucceeded(names) ==
    IF Len(names) = 0 THEN 0
    ELSE (IF Head(names) \in fetch_fails THEN 0 ELSE SignalPoints(Head(names)))
         + PointsOfSucceeded(Tail(names))

\* C12: if the fetch behind a sub-metric of the health score fails (raises
\* inside its fetcher), the signals derived from it contribute exactly 0 and
\* the signals derived from the other fetches contribute what they
\* contribute when that fetch succeeds; the computation is not aborted.
C12_FailedFetchContributesZero ==
    health_pc = "returned" =>
        health_score =
            PointsOfSucceeded(<<"basic_stats", "commit_activity", "issue_stats", "pr_stats">>)

\* the issue fetch alone failed, and the scorer returned the full points of
\* the other three
C12_Witness ==
    /\ health_pc = "returned"
    /\ fetch_fails = {"issue_stats"}
    /\ issue_stats = EmptyDict
    /\ health_score = 50 * ScoreUnit

\* calculate_health_score runs to its return: its calls return or raise
SpecHealthLive == SpecHealth /\ WF_vars(NextHealth)

\* C11: calculate_health_score is total: for every combination of successful
\* and failing fetches (basic stats, commits, issues, pull requests) and every
\* returned data set it terminates without raising, and what it returns is a
\* number in [0, 100].
C11_ScorerTotal ==
    /\ [](health_pc = "returned" => health_score \in 0..(100 * ScoreUnit))
    /\ [](health_pc # "idle" => <>(health_pc = "returned"))

\* the scorer has returned a positive score though two of its fetches raised
C11_Witness ==
    /\ health_pc = "returned"
    /\ fetch_fails = {"basic_stats", "issue_stats"}
    /\ health_score > 0

----------------------------------------------------------------------------
(* app.py: the webhook endpoint; issue_bot.py: SmartIssueBot *)

\* the (title, body) pairs of the payloads of the model
HookTexts == {<<"hello", "">>,
              <<"Bug: crash", "it crashes on click">>,
              <<"Add dark mode", "slow build, minor">>,
              <<"URGENT bug bug", "terrible error in ~app.py~ ~ui.js~ in auth module db component">>}

\* The JSON objects sent as payloads. missing names the required field the
\* payload lacks ("nothing": none); body None is a JSON null.
Payloads ==
    {[title |-> t[1], body |-> t[2], action |-> a, missing |-> "nothing"] :
         a \in {"opened", "edited", "labeled"}, t \in HookTexts}
    \cup {[title |-> "hello", body |-> None, action |-> a, missing |-> "nothing"] :
         a \in {"opened"}}
    \cup {[title |-> "hello", body |-> "", action |-> a, missing |-> m] :
         a \in {"opened", "labeled"}, m \in {"repository", "number", "title", "body"}}

\* The request bodies. json is what the body is to request.get_json():
\*   "object"    a JSON object that is not empty (the payload)
\*   "array"     JSON that is truthy and not an object
\*   "falsy"     JSON that is falsy: {}, [], null, 0
\*   "malformed" not JSON
\*   "empty"     no body
\*   "not_json"  a body whose Content-Type is not JSON
RequestData ==
    {[json |-> "object", payload |-> p] : p \in Payloads}
    \cup {[json |-> k, payload |-> NoPayload] :
             k \in {"array", "falsy", "malformed", "empty", "not_json"}}

\* The X-Hub-Signature-256 headers sent with the body data, by kind.
SignatureKinds == {"absent", "empty", "valid", "wrong_key", "other_body",
                   "no_prefix", "non_ascii"}

SenderKey == IF secret \in {None, ""} THEN "abc" ELSE secret

SignatureHeader(kind, data) ==
    CASE kind = "absent"     -> [present |-> FALSE, ascii |-> TRUE, prefix |-> "", mac |-> NoMac]
      [] kind = "empty"      -> [present |-> TRUE, ascii |-> TRUE, prefix |-> "", mac |-> NoMac]
      [] kind = "valid"      -> [present |-> TRUE, ascii |-> TRUE, prefix |-> "sha256=",
                                 mac |-> Hmac(SenderKey, data)]
      [] kind = "wrong_key"  -> [present |-> TRUE, ascii |-> TRUE, prefix |-> "sha256=",
                                 mac |-> Hmac("xyz", data)]
      [] kind = "other_body" -> [present |-> TRUE, ascii |-> TRUE, prefix |-> "sha256=",
                                 mac |-> Hmac(SenderKey, [json |-> "other", payload |-> NoPayload])]
      [] kind = "no_prefix"  -> [present |-> TRUE, ascii |-> TRUE, prefix |-> "",
                                 mac |-> Hmac(SenderKey, data)]
      [] kind = "non_ascii"  -> [present |-> TRUE, ascii |-> FALSE, prefix |-> "sha256=",
                                 mac |-> NoMac]

Events == {"issues", "pull_request", "ping", "push"}

\* "not x" of a str or None
Falsy(x) == x \in {None, ""}

\* verify_webhook_signature(payload_body, signature_header) with the secret
\* key: "True", "False", or "TypeError" when hmac.compare_digest is given a
\* str that is not ASCII
verify_webhook_signature(key, payload_body, signature_header) ==
    IF Falsy(key) THEN "True"
    ELSE IF ~signature_header.present THEN "False"
    ELSE IF signature_header.prefix = "" /\ signature_header.mac = NoMac THEN "False"
    ELSE IF ~signature_header.ascii THEN "TypeError"
    ELSE IF signature_header.prefix = "sha256="
            /\ signature_header.mac = Hmac(key, payload_body) THEN "True"
    ELSE "False"

\* jsonify(...), status: the thread has answered
Answered(h, status, message) ==
    [h EXCEPT !.pc = "responded", !.status = status, !.message = message]

\* the host call op(args) is appended to the calls of the request
Called(h, op, args) == [h EXCEPT !.calls = Append(@, [op |-> op, args |-> args])]

\* the message of the 200 answer that follows process_issue / process_pull_request
DoneMessage(h) ==
    IF h.req.event = "issues" THEN "Issue processed successfully"
    ELSE IF h.req.event = "pull_request" THEN "Pull request processed successfully"
    ELSE "Issue analyzed successfully"

\* process_issue / process_pull_request returns, also after an exception it
\* caught, and webhook answers 200
Processed(h) == Answered(h, 200, DoneMessage(h))

\* a variant of Process without the try ... except of process_issue and
\* process_pull_request: the exception reaches webhook
ProcessUnguarded(h, name, webhook_data) ==
    LET h1 == [h EXCEPT !.invoked = Append(@, name)]
        p  == webhook_data.payload
    IN  IF webhook_data.json # "object" THEN Answered(h1, 500, "Internal server error")
        ELSE IF p.action \notin {"opened", "edited"} THEN Processed(h1)
        ELSE IF p.missing # "nothing" THEN Answered(h1, 500, "Internal server error")
        ELSE [h1 EXCEPT !.pc = "get_repo",
                        !.title = p.title,
                        !.body = IF p.body = None THEN "" ELSE p.body]

\* a variant of Process without the test of the action
ProcessAnyAction(h, name, webhook_data) ==
    LET h1 == [h EXCEPT !.invoked = Append(@, name)]
        p  == webhook_data.payload
    IN  IF webhook_data.json # "object" THEN Processed(h1)
        ELSE IF p.missing # "nothing" THEN Processed(h1)
        ELSE [h1 EXCEPT !.pc = "get_repo",
                        !.title = p.title,
                        !.body = IF p.body = None THEN "" ELSE p.body]

\* process_issue(webhook_data) / process_pull_request(webhook_data) up to its
\* first host call, and the answer of its caller when it makes none
Process(h, name, webhook_data) ==
    LET h1 == [h EXCEPT !.invoked = Append(@, name)]
        p  == webhook_data.payload
    IN  IF webhook_data.json # "object" THEN Processed(h1)      \* .get: AttributeError
        ELSE IF p.action \notin {"opened", "edited"} THEN Processed(h1)
        ELSE IF p.missing # "nothing" THEN Processed(h1)       \* KeyError
        ELSE [h1 EXCEPT !.pc = "get_repo",
                        !.title = p.title,
                        !.body = IF p.body = None THEN "" ELSE p.body]

\* webhook() from the request to its first host call, or to its answer
Route(h, verdict, json_raises) ==
    IF verdict = "False" THEN Answered(h, 401, "Invalid signature")
    ELSE IF verdict = "TypeError" THEN Answered(h, 500, "Internal server error")
    ELSE IF h.req.data.json \in {"malformed", "empty"}
         THEN Answered(h, 500, "Internal server error")       \* get_json raises BadRequest
    ELSE IF h.req.data.json = "not_json"
         THEN IF json_raises THEN Answered(h, 500, "Internal server error")
              ELSE Answered(h, 400, "Invalid payload")
    ELSE IF h.req.data.json = "falsy" THEN Answered(h, 400, "Invalid payload")
    ELSE IF h.req.event = "issues" THEN Process(h, "process_issue", h.req.data)
    ELSE IF h.req.event = "pull_request" THEN Process(h, "process_pull_request", h.req.data)
    ELSE IF h.req.event = "ping" THEN Answered(h, 200, "Webhook is working!")
    ELSE Answered(h, 200, "Event " \o h.req.event \o " received but not processed")

MaxDeliveries == 1

\* A request arrives at /webhook and thread w takes it: webhook() up to its
\* first host call, or to its answer. The request is one of datas x kinds x
\* events, and the server takes max requests at most. get_json() of a body
\* that is not of a JSON type returns None or raises, with the version of the
\* framework.
Take(w, datas, kinds, events, max) ==
    /\ w \in active
    /\ hook[w].pc \in {"idle", "responded"}
    /\ deliveries < max
    /\ deliveries' = deliveries + 1
    /\ \E data \in datas, kind \in kinds, event \in events, json_raises \in BOOLEAN :
          LET r == [signature |-> SignatureHeader(kind, data), event |-> event, data |-> data]
              h == [IdleHook EXCEPT !.req = r]
          IN  /\ json_raises => data.json = "not_json"
              /\ hook' = [hook EXCEPT ![w] =
                            Route(h, verify_webhook_signature(secret, data, r.signature),
                                  json_raises)]
    /\ UNCHANGED <<secret, active, hostVars>>
    /\ UNCHANGED <<classVars, sizeVars, healthVars, serveVars>>

\* any request arrives at /webhook
Receive(w) == Take(w, RequestData, SignatureKinds, Events, MaxDeliveries)

\* The bodies sent to /analyze-issue. Of a JSON object, missing names the
\* required field it lacks (repo_name, issue_number; "nothing": none).
AnalyzeData ==
    {[json |-> "object", payload |-> [NoPayload EXCEPT !.missing = m]] :
         m \in {"nothing", "repo_name", "issue_number"}}
    \cup {[json |-> k, payload |-> NoPayload] : k \in {"array", "falsy", "malformed"}}

\* mock_webhook: action, repository.full_name and issue.number, and neither
\* issue.title nor issue.body
mock_webhook ==
    [json |-> "object",
     payload |-> [title |-> "", body |-> "", action |-> "opened", missing |-> "title"]]

\* A request arrives at /analyze-issue and thread w takes it:
\* analyze_issue_manually up to the first host call of process_issue, or to
\* its answer
analyze_issue_manually(w) ==
    /\ w \in active
    /\ hook[w].pc \in {"idle", "responded"}
    /\ deliveries < MaxDeliveries
    /\ deliveries' = deliveries + 1
    /\ \E data \in AnalyzeData :
          LET h == [IdleHook EXCEPT !.req = [NoRequest EXCEPT !.event = "analyze-issue",
                                                              !.data = data]]
          IN  hook' = [hook EXCEPT ![w] =
                  IF data.json = "malformed" THEN Answered(h, 500, "str(e)")
                  ELSE IF data.json = "falsy" THEN Answered(h, 400, "No data provided")
                  ELSE IF data.json = "array" \/ data.payload.missing # "nothing"
                       THEN Answered(h, 400, "Missing required field")
                  ELSE Process(h, "process_issue", mock_webhook)]
    /\ UNCHANGED <<secret, active, hostVars>>
    /\ UNCHANGED <<classVars, sizeVars, healthVars, serveVars>>

\* a variant of IssueLabelsToAdd that labels every component
IssueLabelsAllComponents(c) ==
    <<c.type>>
    \o (IF c.priority # "medium" THEN <<"priority:" \o c.priority>> ELSE <<>>)
    \o (IF c.sentiment = "negative" THEN <<"needs-attention">> ELSE <<>>)
    \o [k \in DOMAIN c.components |-> "component:" \o c.components[k]]

\* labels_to_add of _classify_and_label_issue
IssueLabelsToAdd(c) ==
    <<c.type>>
    \o (IF c.priority # "medium" THEN <<"priority:" \o c.priority>> ELSE <<>>)
    \o (IF c.sentiment = "negative" THEN <<"needs-attention">> ELSE <<>>)
    \o [k \in DOMAIN First3(c.components) |-> "component:" \o c.components[k]]

\* any(word in text for word in words)
AnyIn(words, text) == \E k \in DOMAIN words : Contains(words[k], text)

\* (memo) _classify_pr_type(title, body) for the texts of the model
PrTypes ==
    [t \in HookTexts |->
        LET text == TextResults[t[1], t[2]].text
        IN  IF AnyIn(<<"fix", "bug", "error", "issue">>, text) THEN "bugfix"
            ELSE IF AnyIn(<<"feat", "feature", "add", "new">>, text) THEN "feature"
            ELSE IF AnyIn(<<"doc", "documentation", "readme">>, text) THEN "documentation"
            ELSE IF AnyIn(<<"refactor", "cleanup", "improve">>, text) THEN "refactor"
            ELSE IF AnyIn(<<"test", "testing">>, text) THEN "test"
            ELSE "enhancement"]

_classify_pr_type(t, b) == PrTypes[<<t, b>>]

\* the (additions, deletions) a pull request of the host can have
PullSizes == {<<5, 5>>, <<10, 10>>, <<300, 300>>}

\* labels_to_add of _classify_and_label_pr
PrLabelsToAdd(t, b, size) ==
    <<_classify_pr_type(t, b), PrSizeLabel(size[1] + size[2])>>

\* label_name.split(':')[0]
RECURSIVE BeforeColon(_, _)
BeforeColon(name, pos) ==
    IF pos > Len(name) \/ Char(name, pos) = ":" THEN SubSeq(name, 1, pos - 1)
    ELSE BeforeColon(name, pos + 1)

color_map ==
    <<[name |-> "bug", color |-> "d73a4a"], [name |-> "feature", color |-> "0075ca"],
      [name |-> "documentation", color |-> "0052cc"], [name |-> "question", color |-> "d876e3"],
      [name |-> "enhancement", color |-> "a2eeef"],
      [name |-> "priority:critical", color |-> "b60205"],
      [name |-> "priority:high", color |-> "d93f0b"],
      [name |-> "priority:medium", color |-> "fbca04"],
      [name |-> "priority:low", color |-> "0e8a16"],
      [name |-> "needs-attention", color |-> "ff6b6b"],
      [name |-> "size:small", color |-> "c2e0c6"], [name |-> "size:medium", color |-> "f9d71c"],
      [name |-> "size:large", color |-> "dfa878"], [name |-> "size:xl", color |-> "d73a4a"]>>

\* color_map.get(key, '7057ff')
ColorGet(key) ==
    IF \E k \in DOMAIN color_map : color_map[k].name = key
    THEN color_map[CHOOSE k \in DOMAIN color_map : color_map[k].name = key].color
    ELSE "7057ff"

\* the color _create_label_if_not_exists creates label_name with
LabelColor(label_name) ==
    IF Contains(":", label_name) THEN ColorGet(label_name)
    ELSE ColorGet(BeforeColon(label_name, 1))

\* the comment of _generate_auto_label_comment, by its variable parts
AutoLabelComment(issue_type, priority, components) ==
    [type |-> issue_type, priority |-> priority, components |-> components]

\* the loop "for label in labels_to_add" goes on with the next label, or ends
\* and set_labels is next
NextLabel(h) ==
    IF h.i < Len(h.labels_to_add) THEN [h EXCEPT !.pc = "get_label", !.i = @ + 1]
    ELSE [h EXCEPT !.pc = "set_labels"]

\* a variant of AfterCreate in which the failure of create_label is not
\* passed over: it ends the labelling, and process_issue returns
AfterCreatePropagating(h, created) == IF created THEN NextLabel(h) ELSE Processed(h)

\* try: repo.create_label(...) except: pass, and what follows it
AfterCreate(h, created) == NextLabel(h)

\* a variant of AfterSetLabels in which the pull-request path comments too
AfterSetLabelsCommentingPulls(h, ok) ==
    IF ok THEN [h EXCEPT !.pc = "create_comment"] ELSE Processed(h)

\* a variant of AfterSetLabels in which the comment on the issue does not
\* depend on the outcome of set_labels
AfterSetLabelsAlwaysCommenting(h, ok) ==
    IF h.req.event # "pull_request" THEN [h EXCEPT !.pc = "create_comment"]
    ELSE Processed(h)

\* what follows set_labels: the comment in _classify_and_label_issue when the
\* call returned, else the return of process_issue / process_pull_request
AfterSetLabels(h, ok) ==
    IF ok /\ h.req.event # "pull_request" THEN [h EXCEPT !.pc = "create_comment"]
    ELSE Processed(h)

\* repo = self.github.get_repo(repo_name)
GetRepo(w) ==
    /\ hook[w].pc = "get_repo"
    /\ \E ok \in BOOLEAN :
          LET h == Called(hook[w], "get_repo", <<"owner/repo">>)
          IN  hook' = [hook EXCEPT ![w] =
                  IF ~ok THEN Processed(h)
                  ELSE [h EXCEPT !.pc = IF h.req.event \in {"issues", "analyze-issue"} THEN "get_issue"
                                        ELSE "get_pull"]]
    /\ UNCHANGED <<secret, active, deliveries, hostVars>>
    /\ UNCHANGED <<classVars, sizeVars, healthVars, serveVars>>

\* issue = repo.get_issue(issue_number), then _classify_and_label_issue up to
\* its first host call
GetIssue(w) ==
    /\ hook[w].pc = "get_issue"
    /\ \E ok \in BOOLEAN :
          LET h == Called(hook[w], "get_issue", <<"1">>)
              c == Classification(h.title, h.body, hashSeed)
          IN  hook' = [hook EXCEPT ![w] =
                  IF ~ok THEN Processed(h)
                  ELSE [h EXCEPT !.issue_type = c.type,
                                 !.priority = c.priority,
                                 !.components = c.components,
                                 !.labels_to_add = IssueLabelsToAdd(c),
                                 !.i = 1,
                                 !.pc = "get_label"]]
    /\ UNCHANGED <<secret, active, deliveries, hostVars>>
    /\ UNCHANGED <<classVars, sizeVars, healthVars, serveVars>>

\* pr = repo.get_pull(pr_number), then _classify_and_label_pr up to its first
\* host call
GetPull(w) ==
    /\ hook[w].pc = "get_pull"
    /\ \E ok \in BOOLEAN, size \in PullSizes :
          LET h == Called(hook[w], "get_pull", <<"2">>)
          IN  hook' = [hook EXCEPT ![w] =
                  IF ~ok THEN Processed(h)
                  ELSE [h EXCEPT !.labels_to_add = PrLabelsToAdd(h.title, h.body, size),
                                 !.i = 1,
                                 !.pc = "get_label"]]
    /\ UNCHANGED <<secret, active, deliveries, hostVars>>
    /\ UNCHANGED <<classVars, sizeVars, healthVars, serveVars>>

\* _create_label_if_not_exists: repo.get_label(label_name). It returns only
\* when the repository has the label; when it raises (no such label, or the
\* host fails) create_label is next.
GetLabel(w) ==
    /\ hook[w].pc = "get_label"
    /\ LET label == hook[w].labels_to_add[hook[w].i]
           h == Called(hook[w], "get_label", <<label>>)
       IN  \E found \in BOOLEAN :
              /\ found => label \in repo_labels
              /\ hook' = [hook EXCEPT ![w] =
                     IF found THEN NextLabel(h) ELSE [h EXCEPT !.pc = "create_label"]]
    /\ UNCHANGED <<secret, active, deliveries, hostVars>>
    /\ UNCHANGED <<classVars, sizeVars, healthVars, serveVars>>

\* _create_label_if_not_exists: repo.create_label(label_name, color). It
\* succeeds only when the repository has no such label; its failure is
\* passed over.
CreateLabel(w) ==
    /\ hook[w].pc = "create_label"
    /\ LET label == hook[w].labels_to_add[hook[w].i]
           h == Called(hook[w], "create_label", <<label, LabelColor(label)>>)
       IN  \E created \in BOOLEAN :
              /\ created => label \notin repo_labels
              /\ repo_labels' = IF created THEN repo_labels \cup {label} ELSE repo_labels
              /\ hook' = [hook EXCEPT ![w] = AfterCreate(h, created)]
    /\ UNCHANGED <<secret, active, deliveries, issue_labels, issue_comments, pr_labels>>
    /\ UNCHANGED <<classVars, sizeVars, healthVars, serveVars>>

\* issue.set_labels(*labels_to_add) / pr.set_labels(*labels_to_add)
SetLabels(w) ==
    /\ hook[w].pc = "set_labels"
    /\ LET h == Called(hook[w], "set_labels", hook[w].labels_to_add)
           on_issue == h.req.event # "pull_request"
       IN  \E ok \in BOOLEAN :
              /\ issue_labels' = IF ok /\ on_issue THEN Range(h.labels_to_add)
                                 ELSE issue_labels
              /\ pr_labels' = IF ok /\ ~on_issue THEN Range(h.labels_to_add)
                              ELSE pr_labels
              /\ hook' = [hook EXCEPT ![w] = AfterSetLabels(h, ok)]
    /\ UNCHANGED <<secret, active, deliveries, repo_labels, issue_comments>>
    /\ UNCHANGED <<classVars, sizeVars, healthVars, serveVars>>

\* issue.create_comment(self._generate_auto_label_comment(...))
CreateComment(w) ==
    /\ hook[w].pc = "create_comment"
    /\ LET h == Called(hook[w], "create_comment", <<>>)
           comment == AutoLabelComment(h.issue_type, h.priority, h.components)
       IN  /\ \E ok \in BOOLEAN :
                 issue_comments' = IF ok THEN Append(issue_comments, comment)
                                   ELSE issue_comments
           /\ hook' = [hook EXCEPT ![w] = Processed(h)]
    /\ UNCHANGED <<secret, active, deliveries, repo_labels, issue_labels, pr_labels>>
    /\ UNCHANGED <<classVars, sizeVars, healthVars, serveVars>>

\* the server starts: one thread takes the requests, one after the other
Init ==
    /\ secret \in {None, "abc"}
    /\ active = {1}
    /\ hook = [w \in Workers |-> IdleHook]
    /\ deliveries = 0
    /\ repo_labels \in {{}, {"bug"}}
    /\ issue_labels = {} /\ issue_comments = <<>> /\ pr_labels = {}
    /\ hashSeed \in Seeds
    /\ title = "hello" /\ body = "" /\ cls = NoResult /\ prev = NoResult /\ runs = 1
    /\ additions = 0 /\ deletions = 0 /\ size_label = None /\ pr_sizes = EmptyDict
    /\ HealthIdle
    /\ ServeIdle

Next ==
    \E w \in Workers :
        \/ Receive(w)
        \/ analyze_issue_manually(w)
        \/ GetRepo(w)
        \/ GetIssue(w)
        \/ GetPull(w)
        \/ GetLabel(w)
        \/ CreateLabel(w)
        \/ SetLabels(w)
        \/ CreateComment(w)

Spec == Init /\ [][Next]_vars

-----------------------------------------------------------------------------
(* The issue (title, body) is delivered again, also after a restart *)

\* the payloads of the issues events for an issue whose text is (t, b)
IssueEvents(t, b) ==
    {[json |-> "object",
      payload |-> [title |-> t, body |-> b, action |-> a, missing |-> "nothing"]] :
         a \in {"opened", "edited"}}

MaxRedeliveries == 2

\* the labels the issue can carry before it is processed
LabelsBefore == {{}, {"wontfix"}}

\* the hash seed of the first process of the server; a restart draws any seed
SeedAtStart == <<"app.py", "ui.js", "auth", "db">>

\* a signed issues event for the issue (title, body) arrives at /webhook
Redeliver(w) == Take(w, IssueEvents(title, body), {"valid"}, {"issues"}, MaxRedeliveries)

\* the server is restarted while it handles no request
RestartServer ==
    /\ \A w \in Workers : hook[w].pc \in {"idle", "responded"}
    /\ Restart

InitRedeliver ==
    /\ secret = "abc"
    /\ active = {1}
    /\ hook = [w \in Workers |-> IdleHook]
    /\ deliveries = 0
    /\ repo_labels = {}
    /\ issue_labels \in LabelsBefore
    /\ issue_comments = <<>> /\ pr_labels = {}
    /\ hashSeed = SeedAtStart
    /\ \E t \in HookTexts : title = t[1] /\ body = t[2]
    /\ cls = NoResult /\ prev = NoResult /\ runs = 1
    /\ additions = 0 /\ deletions = 0 /\ size_label = None /\ pr_sizes = EmptyDict
    /\ HealthIdle
    /\ ServeIdle

NextRedeliver ==
    \/ RestartServer
    \/ \E w \in Workers :
          \/ Redeliver(w)
          \/ GetRepo(w)
          \/ GetIssue(w)
          \/ GetLabel(w)
          \/ CreateLabel(w)
          \/ SetLabels(w)
          \/ CreateComment(w)

SpecRedeliver == InitRedeliver /\ [][NextRedeliver]_vars

-----------------------------------------------------------------------------
(* Two issues events for the same repository are handled at the same time *)

MaxConcurrent == 2

\* the texts of the issues of the repository
ConcurrentTexts == {<<"hello", "">>,
                    <<"Bug: crash", "it crashes on click">>,
                    <<"Add dark mode", "slow build, minor">>}

\* a signed issues event for an issue of the repository arrives at /webhook
Deliver(w) ==
    \E t \in ConcurrentTexts : Take(w, IssueEvents(t[1], t[2]), {"valid"}, {"issues"}, MaxConcurrent)

InitConcurrent ==
    /\ secret = "abc"
    /\ active = Workers
    /\ hook = [w \in Workers |-> IdleHook]
    /\ deliveries = 0
    /\ repo_labels \in {{}, {"bug"}}
    /\ issue_labels = {} /\ issue_comments = <<>> /\ pr_labels = {}
    /\ hashSeed = SeedAtStart
    /\ title = "hello" /\ body = "" /\ cls = NoResult /\ prev = NoResult /\ runs = 1
    /\ additions = 0 /\ deletions = 0 /\ size_label = None /\ pr_sizes = EmptyDict
    /\ HealthIdle
    /\ ServeIdle

NextConcurrent ==
    \E w \in Workers :
        \/ Deliver(w)
        \/ GetRepo(w)
        \/ GetIssue(w)
        \/ GetLabel(w)
        \/ CreateLabel(w)
        \/ SetLabels(w)
        \/ CreateComment(w)

SpecConcurrent == InitConcurrent /\ [][NextConcurrent]_vars

-----------------------------------------------------------------------------
(* Properties of the webhook endpoint *)

\* thread w has taken a request to /webhook
Taken(w) == hook[w].pc # "idle" /\ hook[w].req.event \in Events

\* the acceptance condition of a request: no secret is configured, or the
\* header is present and equals "sha256=" and the hex digest of the raw body
\* under the secret
SignatureAccepted(key, r) ==
    \/ Falsy(key)
    \/ /\ r.signature.present
       /\ r.signature.ascii
       /\ r.signature.prefix = "sha256="
       /\ r.signature.mac = Hmac(key, r.data)

\* C1: a request is accepted by verify_webhook_signature iff no secret is
\* configured or the X-Hub-Signature-256 header is present and equals
\* sha256= followed by the hex HMAC-SHA256 of the raw body; for every event
\* type and every body a request that fails this check is answered 401,
\* neither process_issue nor process_pull_request is invoked and no call to
\* the repository host is made.
C1_FailedCheckIs401 ==
    \A w \in Workers :
        Taken(w) =>
            /\ (verify_webhook_signature(secret, hook[w].req.data, hook[w].req.signature) = "True")
                   <=> SignatureAccepted(secret, hook[w].req)
            /\ ~SignatureAccepted(secret, hook[w].req) =>
                   /\ hook[w].pc = "responded"
                   /\ hook[w].status = 401
                   /\ hook[w].invoked = <<>>
                   /\ hook[w].calls = <<>>

\* the set_labels calls thread w has made for an issue event
IssueSetLabels(w) ==
    {k \in DOMAIN hook[w].calls :
        hook[w].req.event = "issues" /\ hook[w].calls[k].op = "set_labels"}

\* the number of x in the list xs
CountOf(x, xs) == Cardinality({k \in DOMAIN xs : xs[k] = x})

\* the list L is the type label, then priority:<p> iff p is not medium, then
\* needs-attention iff the sentiment is negative, then component:<c> for each
\* of the first 3 at most of the components
IsLabelListOf(L, c) ==
    LET p == IF c.priority # "medium" THEN 1 ELSE 0
        s == IF c.sentiment = "negative" THEN 1 ELSE 0
        n == Min(3, Len(c.components))
    IN  /\ Len(L) = 1 + p + s + n
        /\ L[1] = c.type
        /\ p = 1 => L[2] = "priority:" \o c.priority
        /\ s = 1 => L[2 + p] = "needs-attention"
        /\ \A k \in 1..n : L[1 + p + s + k] = "component:" \o c.components[k]

\* C2: for an issue event that is processed (action opened or edited) the
\* list of labels passed to set_labels is exactly the type label, plus
\* priority:<p> iff the detected priority p is not medium, plus
\* needs-attention iff the sentiment is negative, plus component:<c> for each
\* of at most 3 extracted components; it has exactly one type label, never
\* priority:medium, and between 1 and 6 entries.
C2_IssueLabelList ==
    \A w \in Workers : \A k \in IssueSetLabels(w) :
        LET L == hook[w].calls[k].args
            p == hook[w].req.data.payload
            c == Classification(p.title, IF p.body = None THEN "" ELSE p.body, hashSeed)
        IN  /\ p.action \in {"opened", "edited"}
            /\ IsLabelListOf(L, c)
            /\ Cardinality({j \in DOMAIN L : L[j] \in TypeLabels}) = 1
            /\ CountOf("priority:medium", L) = 0
            /\ Len(L) \in 1..6

\* an issue with a priority, a negative sentiment and four components has had
\* its six labels set; so has an issue with its type label only
C2_Witness ==
    \E w \in Workers : \E k \in IssueSetLabels(w) :
        /\ Len(hook[w].calls[k].args) = 6
        /\ Len(extract_components(hook[w].body, hashSeed)) = 4
        /\ issue_labels = Range(hook[w].calls[k].args)

\* thread w has taken a request that passes the signature verification
Verified(w) ==
    /\ Taken(w)
    /\ verify_webhook_signature(secret, hook[w].req.data, hook[w].req.signature) = "True"

\* C13: for a webhook request that passes signature verification and carries
\* a non-empty JSON payload the X-GitHub-Event header selects the handling:
\* issues invokes process_issue exactly once and never process_pull_request,
\* pull_request invokes process_pull_request exactly once and never
\* process_issue, ping and every other value invoke neither and make no host
\* call; in all four cases the response status is 200.
C13_EventSelectsHandling ==
    \A w \in Workers :
        (Verified(w) /\ hook[w].req.data.json \in {"object", "array"}) =>
            /\ hook[w].req.event = "issues" => hook[w].invoked = <<"process_issue">>
            /\ hook[w].req.event = "pull_request" =>
                   hook[w].invoked = <<"process_pull_request">>
            /\ hook[w].req.event \notin {"issues", "pull_request"} =>
                   hook[w].invoked = <<>> /\ hook[w].calls = <<>>
            /\ hook[w].pc = "responded" => hook[w].status = 200

\* a signed pull_request event whose payload is a JSON array has been answered
\* 200 after one process_pull_request
C13_Witness ==
    \E w \in Workers :
        /\ Verified(w) /\ ~Falsy(secret)
        /\ hook[w].req.data.json = "array"
        /\ hook[w].req.event = "pull_request"
        /\ hook[w].invoked = <<"process_pull_request">>
        /\ hook[w].pc = "responded" /\ hook[w].status = 200

\* C14: a webhook request that passes signature verification and whose body
\* is absent or is not parseable as JSON is answered with status 400 (not 500
\* and not 200), and no processing is invoked.
C14_UnparseableBodyIs400 ==
    \A w \in Workers :
        (Verified(w) /\ hook[w].req.data.json \in {"malformed", "empty", "not_json"}) =>
            /\ hook[w].pc = "responded"
            /\ hook[w].status = 400
            /\ hook[w].invoked = <<>>
            /\ hook[w].calls = <<>>

\* thread w has taken a verified issues or pull_request event, opened or
\* edited, whose payload lacks a required field
LacksRequiredField(w) ==
    /\ Verified(w)
    /\ hook[w].req.event \in {"issues", "pull_request"}
    /\ hook[w].req.data.json = "object"
    /\ hook[w].req.data.payload.action \in {"opened", "edited"}
    /\ hook[w].req.data.payload.missing # "nothing"

\* C15: an issues or pull_request webhook with action opened or edited whose
\* payload lacks a required field (repository.full_name, or the number, title
\* or body of the issue / pull request) is rejected with a 400-class
\* response; it is never answered with the 200 success message while nothing
\* was classified.
C15_MissingFieldIs400 ==
    \A w \in Workers :
        (LacksRequiredField(w) /\ hook[w].pc = "responded") =>
            /\ hook[w].status \in 400..499
            /\ ~(hook[w].status = 200 /\ hook[w].labels_to_add = <<>>)

\* thread w has taken a request to /analyze-issue
Manual(w) == hook[w].pc # "idle" /\ hook[w].req.event = "analyze-issue"

\* thread w has called set_labels
HasSetLabels(w) == \E k \in DOMAIN hook[w].calls : hook[w].calls[k].op = "set_labels"

\* C16: POST /analyze-issue with a JSON body containing repo_name and
\* issue_number of an existing issue on a reachable host drives the same
\* classification pipeline as an opened issues webhook: the issue is
\* classified and its labels are written with set_labels before the Issue
\* analyzed successfully response is returned. A body missing either field is
\* answered 400 without any processing.
C16_ManualAnalysisLabels ==
    \A w \in Workers :
        (Manual(w) /\ hook[w].req.data.json = "object") =>
            /\ (hook[w].req.data.payload.missing = "nothing"
                  /\ hook[w].pc = "responded"
                  /\ hook[w].message = "Issue analyzed successfully") =>
                   /\ hook[w].labels_to_add # <<>>
                   /\ HasSetLabels(w)
            /\ hook[w].req.data.payload.missing # "nothing" =>
                   /\ hook[w].pc = "responded" /\ hook[w].status = 400
                   /\ hook[w].invoked = <<>> /\ hook[w].calls = <<>>

\* how many calls of op the request of h has made
CountCalls(h, op) == Cardinality({k \in DOMAIN h.calls : h.calls[k].op = op})

\* the set_labels call of thread w succeeds in this step
LabelWriteSucceeds(w) == hook[w].pc = "set_labels" /\ hook'[w].pc = "create_comment"

\* C17: when processing of an issue succeeds, the label set of the issue on
\* the host is replaced by a single set_labels call and afterwards equals
\* exactly the computed label set, whatever labels the issue carried before;
\* processing the same title and body again (the issue carries the comment of
\* an earlier processing) leaves that label set unchanged.
C17_LabelsReplacedIdempotently ==
    [][\A w \in Workers :
          LabelWriteSucceeds(w) =>
              /\ CountCalls(hook'[w], "set_labels") = 1
              /\ issue_labels' = Range(IssueLabelsToAdd(Classification(title, body, hashSeed)))
              /\ issue_comments # <<>> => issue_labels' = issue_labels]_vars

\* the labels thread w has looked up, in the order of its get_label calls
LookedUp(w) ==
    LET gets == SelectSeq(hook[w].calls, LAMBDA c : c.op = "get_label")
    IN  [k \in DOMAIN gets |-> gets[k].args[1]]

\* every create_label call of thread w follows the get_label call for the same
\* label: one attempt for a lookup, and none without a lookup
CreateFollowsLookup(w) ==
    \A k \in DOMAIN hook[w].calls :
        hook[w].calls[k].op = "create_label" =>
            /\ k > 1
            /\ hook[w].calls[k - 1].op = "get_label"
            /\ hook[w].calls[k - 1].args[1] = hook[w].calls[k].args[1]

\* thread w moves on from a get_label call without a create_label call
SkipsCreate(w) ==
    /\ hook[w].pc = "get_label"
    /\ hook'[w] # hook[w]
    /\ hook'[w].pc # "create_label"

\* C18: _create_label_if_not_exists never propagates an error: when the
\* label lookup fails it attempts one create_label and ignores its failure,
\* also when another delivery creates the same label between the lookup and
\* the create; when the lookup succeeds it does not call create_label. With
\* two deliveries for the same repository processed concurrently, both reach
\* their set_labels write.
C18_LabelCreationNeverPropagates ==
    /\ [](\A w \in Workers :
            /\ CreateFollowsLookup(w)
            /\ (hook[w].pc = "responded" /\ hook[w].labels_to_add # <<>>) =>
                   /\ LookedUp(w) = hook[w].labels_to_add
                   /\ HasSetLabels(w))
    /\ [][\A w \in Workers :
            SkipsCreate(w) => hook[w].labels_to_add[hook[w].i] \in repo_labels]_vars

\* both threads looked up the label bug, found none and called create_label
\* for it, and both went on to set_labels
C18_Witness ==
    /\ "bug" \in repo_labels
    /\ \A w \in Workers :
          /\ hook[w].pc = "responded"
          /\ HasSetLabels(w)
          /\ \E k \in DOMAIN hook[w].calls :
                /\ hook[w].calls[k].op = "create_label"
                /\ hook[w].calls[k].args[1] = "bug"
                /\ \A v \in Workers : \A j \in DOMAIN hook[v].calls :
                      hook[v].calls[j].op = "create_label" => hook[v].calls[j].args[1] = "bug"

\* thread w makes a step
Steps(w) == hook'[w] # hook[w]

\* the set_labels call of thread w changes the labels of the issue to the
\* computed ones
IssueLabelsWritten(w) ==
    /\ hook[w].pc = "set_labels" /\ Steps(w)
    /\ issue_labels' # issue_labels
    /\ issue_labels' = Range(hook[w].labels_to_add)

\* the last call thread w has made, "" when it has made none
LastCall(w) ==
    IF hook[w].calls = <<>> THEN "" ELSE hook[w].calls[Len(hook[w].calls)].op

InitStatus ==
    /\ health_pc = "returned"
    /\ basic_stats = EmptyDict /\ commit_activity = EmptyDict
    /\ issue_stats = EmptyDict /\ pr_stats = EmptyDict
    /\ health_score \in 0..(100 * ScoreUnit)
    /\ score = health_score
    /\ fetch_fails = {}
    /\ repo_issues = <<>> /\ repo_pulls = <<>>
    /\ title = "hello" /\ body = "" /\ hashSeed = <<>>
    /\ cls = NoResult /\ prev = NoResult /\ runs = 1
    /\ additions = 0 /\ deletions = 0 /\ size_label = None /\ pr_sizes = EmptyDict
    /\ HookIdle
    /\ ServeIdle

NextStatus == HealthAnswer \/ DisplayHealthScore

SpecStatus == InitStatus /\ [][NextStatus]_vars

\* st is the status of the score s, in the four bands of the thresholds 90, 75, 60
InBand(st, s) ==
    /\ st \in {"excellent", "good", "fair", "poor"}
    /\ st = "excellent" <=> s >= 90 * ScoreUnit
    /\ st = "good" <=> (75 * ScoreUnit <= s /\ s < 90 * ScoreUnit)
    /\ st = "fair" <=> (60 * ScoreUnit <= s /\ s < 75 * ScoreUnit)
    /\ st = "poor" <=> s < 60 * ScoreUnit

\* C21: the status shown for a score s is excellent iff s >= 90, good iff
\* 75 <= s < 90, fair iff 60 <= s < 75 and poor iff s < 60, in the answer of
\* /health and in the dashboard alike.
C21_StatusBands ==
    /\ health_status # None => InBand(health_status, health_score)
    /\ dash_status # None => InBand(Lower(dash_status), health_score)
    /\ (health_status # None /\ dash_status # None) => Lower(dash_status) = health_status

\* a score on the threshold 75 was shown by both
C21_Witness ==
    /\ health_score = 75 * ScoreUnit
    /\ health_status = "good"
    /\ dash_status = "Good"

(***************************************************************************)
(* PyGithub.py: GitHubUtils.wait_for_rate_limit, and the callers of the    *)
(* host that do not go through it                                          *)
(***************************************************************************)

\* the host's core limit: the quota of a fresh window
MaxQuota == 12
\* the clock is followed up to this time
MaxClock == 6

\* the host at time t: at its reset time the window is replaced by a fresh one
RateLimitAt(t) ==
    IF t >= reset THEN [remaining |-> MaxQuota, reset |-> t + 2]
    ELSE [remaining |-> remaining, reset |-> reset]

\* a call to the host at time t takes one of the calls left in the window
Spent(t) == Max(0, RateLimitAt(t).remaining - 1)

\* time passes
Tick ==
    /\ clock < MaxClock
    /\ clock' = clock + 1
    /\ remaining' = RateLimitAt(clock').remaining
    /\ reset' = RateLimitAt(clock').reset
    /\ UNCHANGED last_call
    /\ UNCHANGED <<health_status, dash_status, statVars, reportVars>>
    /\ UNCHANGED <<classVars, sizeVars, healthVars, hookVars>>

\* wait_for_rate_limit(): the time at which it returns
\*   if rate_limit.core.remaining < 10:
\*       sleep_time = max(reset_time - time.time(), 0) + 1; time.sleep(sleep_time)
wait_for_rate_limit ==
    IF remaining < 10 THEN clock + Max(reset - clock, 0) + 1 ELSE clock

\* GitHubUtils.get_repository_safely(repo_name): wait_for_rate_limit(), then get_repo
GetRepositorySafely ==
    /\ clock < MaxClock
    /\ clock' = wait_for_rate_limit
    /\ last_call' = [by |-> "get_repository_safely", checked |-> TRUE,
                     seen |-> remaining, reset_seen |-> reset,
                     waited |-> clock' > clock,
                     quota |-> RateLimitAt(clock').remaining, at |-> clock']
    /\ remaining' = Spent(clock')
    /\ reset' = RateLimitAt(clock').reset
    /\ UNCHANGED <<health_status, dash_status, statVars, reportVars>>
    /\ UNCHANGED <<classVars, sizeVars, healthVars, hookVars>>

\* a caller that asks the host for the repository at once:
\* RepositoryAnalyzer.__init__ (self.repo = self.github.get_repo(self.repo_name)),
\* which /health, /analytics, /stats and the dashboard run first, and
\* process_issue / process_pull_request (repo = self.github.get_repo(repo_name))
GetRepoAtOnce(caller) ==
    /\ last_call' = [by |-> caller, checked |-> FALSE,
                     seen |-> remaining, reset_seen |-> reset,
                     waited |-> FALSE, quota |-> remaining, at |-> clock]
    /\ remaining' = Spent(clock)
    /\ UNCHANGED <<reset, clock>>
    /\ UNCHANGED <<health_status, dash_status, statVars, reportVars>>
    /\ UNCHANGED <<classVars, sizeVars, healthVars, hookVars>>

AnalyzerInit == GetRepoAtOnce("RepositoryAnalyzer.__init__")

ProcessIssueGetRepo == GetRepoAtOnce("process_issue")

InitQuota ==
    /\ HealthIdle
    /\ title = "hello" /\ body = "" /\ hashSeed = <<>>
    /\ cls = NoResult /\ prev = NoResult /\ runs = 1
    /\ additions = 0 /\ deletions = 0 /\ size_label = None /\ pr_sizes = EmptyDict
    /\ HookIdle
    /\ health_status = None /\ dash_status = None
    /\ stat_repos = <<>> /\ stat_seen = <<>> /\ stat_result = EmptyDict /\ stat_status = 0
    /\ ReportIdle
    /\ clock = 0
    /\ reset \in 1..2
    /\ remaining \in 0..MaxQuota
    /\ last_call = NoCall

NextQuota ==
    \/ Tick
    \/ GetRepositorySafely
    \/ AnalyzerInit
    \/ ProcessIssueGetRepo

SpecQuota == InitQuota /\ [][NextQuota]_vars

\* C22: before the calls of a request to the host the remaining core quota is
\* checked; below 10 no call is issued until the reset time of the window has
\* passed, and with 10 or more left there is no wait.
C22_QuotaCheckedBeforeCalls ==
    last_call.by # None =>
        /\ last_call.checked
        /\ last_call.seen < 10 =>
              /\ last_call.waited
              /\ last_call.at > last_call.reset_seen
        /\ last_call.seen >= 10 => ~last_call.waited

\* the part of C22 that holds: the calls made through get_repository_safely
C22_UtilityWaits ==
    last_call.by = "get_repository_safely" =>
        /\ last_call.seen < 10 =>
              /\ last_call.waited
              /\ last_call.at > last_call.reset_seen
              /\ last_call.quota >= 10
        /\ last_call.seen >= 10 => ~last_call.waited

(***************************************************************************)
(* app.py: GET /stats                                                      *)
(***************************************************************************)

\* the longest list of names in the parameter repos
MaxRepoNames == 6

\* str.strip() of a name: the blanks at its ends removed
RECURSIVE Strip(_)
Strip(s) ==
    IF Len(s) = 0 THEN s
    ELSE IF Char(s, 1) = " " THEN Strip(SubSeq(s, 2, Len(s)))
    ELSE IF Char(s, Len(s)) = " " THEN Strip(SubSeq(s, 1, Len(s) - 1))
    ELSE s

\* the names between the commas of the parameter
RepoNames == {"o/a", " o/b"}

\* what the host holds for a repository: its fields, its number of commits
\* of the last 30 days, its issues and its pull requests
HostOf(name) ==
    IF name = "o/a"
    THEN [repo |-> [description |-> "A repository assistant", stars |-> 11, forks |-> 6],
          commits |-> 16,
          issues |-> <<[state |-> "closed", closed_at |-> <<48>>, comments |-> <<12>>]>>,
          pulls |-> <<[state |-> "closed", merged_at |-> <<24>>]>>]
    ELSE [repo |-> [description |-> None, stars |-> 0, forks |-> 0],
          commits |-> 0, issues |-> <<>>, pulls |-> <<>>]

\* calculate_health_score() of the analyzer of name, when the fetches in fails raise
HealthScoreOf(name, fails) ==
    LET h == HostOf(name)
        One(f, d) == CHOOSE r \in FetchReturns(f, fails, {d}) : TRUE
    IN  HealthScoreOn(One("basic_stats", get_basic_stats(h.repo)),
                      One("commit_activity", get_commit_activity(h.commits)),
                      One("issue_stats", get_issue_analytics(h.issues)),
                      One("pr_stats", get_pull_request_analytics(h.pulls)))

\* per repository, what calculate_health_score() can return: any of its
\* fetches may raise
HealthScores ==
    [n \in {Strip(x) : x \in RepoNames} |->
        {HealthScoreOf(n, fails) : fails \in SUBSET Fetches}]

\* the keys of the summary of a repository
SummaryKeys == {"health_score", "stars", "forks", "open_issues", "language"}

\* stats[repo_name] = {'health_score': ..., 'stars': basic_stats.get('stars', 0), ...}
Summary(health, stats) ==
    [health_score |-> health, stars |-> Get(stats, "stars", 0),
     forks |-> Get(stats, "forks", 0), keys |-> SummaryKeys]

\* stats[repo_name] = {'error': str(e)}
ErrorEntry ==
    [health_score |-> 0, stars |-> 0, forks |-> 0, keys |-> {"error"}]

\* a loop over every name of the parameter
AllRepos(names) == names

\* repos[:5]
FirstRepos(names) == SubSeq(names, 1, Min(5, Len(names)))

\* d[k] = v
Assigned(d, k, v) == [x \in DOMAIN d \cup {k} |-> IF x = k THEN v ELSE d[x]]

\* GET /stats arrives: repos = request.args.get('repos', ...).split(',')
InitStats ==
    /\ HealthIdle
    /\ title = "hello" /\ body = "" /\ hashSeed = <<>>
    /\ cls = NoResult /\ prev = NoResult /\ runs = 1
    /\ additions = 0 /\ deletions = 0 /\ size_label = None /\ pr_sizes = EmptyDict
    /\ HookIdle
    /\ health_status = None /\ dash_status = None
    /\ remaining = 0 /\ reset = 0 /\ clock = 0 /\ last_call = NoCall
    /\ ReportIdle
    /\ stat_repos \in UNION {[1..n -> RepoNames] : n \in 1..MaxRepoNames}
    /\ stat_seen = <<>>
    /\ stat_result = EmptyDict
    /\ stat_status = 0

\* one iteration of the loop of quick_stats: RepositoryAnalyzer(repo_name) raises,
\* or get_basic_stats() and calculate_health_score() return and the summary is stored
QuickStatsRepo ==
    /\ stat_status = 0
    /\ Len(stat_seen) < Len(FirstRepos(stat_repos))
    /\ LET repo_name == Strip(FirstRepos(stat_repos)[Len(stat_seen) + 1])
       IN  \E raised \in BOOLEAN, fails \in SUBSET {"basic_stats"} :
             \E stats \in FetchReturns("basic_stats", fails,
                                       {get_basic_stats(HostOf(repo_name).repo)}) :
               \E health \in HealthScores[repo_name] :
                 /\ stat_seen' = Append(stat_seen, [name |-> repo_name, raised |-> raised])
                 /\ stat_result' = Assigned(stat_result, repo_name,
                        IF raised THEN ErrorEntry ELSE Summary(health, stats))
    /\ UNCHANGED <<stat_repos, stat_status>>
    /\ UNCHANGED <<health_status, dash_status, quotaVars, reportVars>>
    /\ UNCHANGED <<classVars, sizeVars, healthVars, hookVars>>

\* return jsonify(stats)
QuickStatsAnswer ==
    /\ stat_status = 0
    /\ Len(stat_seen) = Len(FirstRepos(stat_repos))
    /\ stat_status' = 200
    /\ UNCHANGED <<stat_repos, stat_seen, stat_result>>
    /\ UNCHANGED <<health_status, dash_status, quotaVars, reportVars>>
    /\ UNCHANGED <<classVars, sizeVars, healthVars, hookVars>>

NextStats == QuickStatsRepo \/ QuickStatsAnswer

SpecStats == InitStats /\ [][NextStats]_vars

\* the last iteration that analysed the name n
LastSeen(n) ==
    CHOOSE k \in 1..Len(stat_seen) :
        /\ stat_seen[k].name = n
        /\ \A j \in (k + 1)..Len(stat_seen) : stat_seen[j].name # n

PolarityOfText == [t \in Titles, b \in Bodies |-> Polarity(Joined(t, b))]

\* the polarity of the text the classifier was called on is below (above)
\* x / 10; Polarity is a fraction of hundredths
PolarityBelow(x) ==
    LET p == PolarityOfText[title, body]
    IN  10 * p.num < x * 100 * p.den

PolarityAbove(x) ==
    LET p == PolarityOfText[title, body]
    IN  10 * p.num > x * 100 * p.den

\* C24: analyze_sentiment maps the polarity p to negative iff p < -0.3, to
\* positive iff p > 0.3 and to neutral otherwise, so -0.3 and 0.3 are neutral;
\* the label needs-attention is among the labels to add iff the result is
\* negative.
C24_SentimentThresholds ==
    Classified =>
        /\ cls.sentiment \in {"negative", "neutral", "positive"}
        /\ cls.sentiment = "negative" <=> PolarityBelow(-3)
        /\ cls.sentiment = "positive" <=> PolarityAbove(3)
        /\ cls.sentiment = "neutral" <=> (~PolarityBelow(-3) /\ ~PolarityAbove(3))
        /\ (\E k \in DOMAIN IssueLabelsToAdd(cls) :
               IssueLabelsToAdd(cls)[k] = "needs-attention")
           <=> cls.sentiment = "negative"

\* a text whose polarity is exactly -0.3 was classified
C24_Witness ==
    /\ Classified
    /\ title = "Help" /\ body = "slow build, minor"
    /\ ~PolarityBelow(-3) /\ ~PolarityAbove(-3)
    /\ cls.sentiment = "neutral"

(***************************************************************************)
(* Deliveries of other actions; the order of the host writes               *)
(***************************************************************************)

\* the thread w took an issues or pull_request delivery that the endpoint
\* handed to the bot and whose action is neither opened nor edited
OtherAction(w) ==
    /\ Taken(w)
    /\ hook[w].req.event \in {"issues", "pull_request"}
    /\ hook[w].invoked # <<>>
    /\ hook[w].req.data.json = "object"
    /\ hook[w].req.data.payload.action \notin {"opened", "edited"}

\* C25: an issues or pull_request delivery whose action is neither opened nor
\* edited (labeled, for one) causes no call to the host: no fetch of the
\* repository or the issue, no label creation, no set_labels, no comment.
C25_OtherActionsCallNothing ==
    \A w \in Workers :
        OtherAction(w) =>
            /\ hook[w].calls = <<>>
            /\ hook[w].pc = "responded"
            /\ hook[w].status = 200
            /\ issue_comments = <<>>

\* a complete labeled delivery of an issue with labels to add was answered
C25_Witness ==
    \E w \in Workers :
        /\ OtherAction(w)
        /\ hook[w].req.event = "issues"
        /\ hook[w].req.data.payload.action = "labeled"
        /\ hook[w].req.data.payload.missing = "nothing"
        /\ hook[w].req.data.payload.title = "URGENT bug bug"
        /\ hook[w].invoked = <<"process_issue">>
        /\ hook[w].pc = "responded"

\* the calls of the request h to the host are in the order of
\* _classify_and_label_issue: the lookup (and creation) of every label, then
\* set_labels, then the comment
WritesInOrder(h) ==
    \A k \in DOMAIN h.calls :
        /\ h.calls[k].op = "create_label" =>
              /\ k > 1
              /\ h.calls[k - 1].op = "get_label"
              /\ h.calls[k - 1].args[1] = h.calls[k].args[1]
        /\ h.calls[k].op = "set_labels" =>
              /\ \A l \in DOMAIN h.labels_to_add :
                    \E j \in 1..(k - 1) : /\ h.calls[j].op = "get_label"
                                          /\ h.calls[j].args = <<h.labels_to_add[l]>>
              /\ \A j \in 1..(k - 1) : h.calls[j].op \notin {"set_labels", "create_comment"}
              /\ \A j \in (k + 1)..Len(h.calls) : h.calls[j].op = "create_comment"
        /\ h.calls[k].op = "create_comment" =>
              /\ k > 1
              /\ h.calls[k - 1].op = "set_labels"

\* the set_labels call of thread w on the issue fails
IssueLabelWriteFails(w) ==
    /\ hook[w].pc = "set_labels" /\ Steps(w)
    /\ hook[w].req.event = "issues"
    /\ issue_labels' = issue_labels
    /\ issue_labels # Range(hook[w].labels_to_add)

\* C26: in issue processing the create-if-absent step of every label of the
\* computed set is over before set_labels, and the comment is posted only
\* after set_labels has succeeded; when set_labels fails no comment is
\* posted, the error is not propagated and the webhook answers 200.
C26_WritesInOrder ==
    /\ [](\A w \in Workers :
            (Taken(w) /\ hook[w].req.event = "issues") =>
                /\ WritesInOrder(hook[w])
                /\ issue_comments # <<>> => issue_labels = Range(hook[w].labels_to_add))
    /\ [][\A w \in Workers :
            IssueLabelWriteFails(w) =>
                /\ hook'[w].pc = "responded"
                /\ hook'[w].status = 200
                /\ hook'[w].message = "Issue processed successfully"
                /\ issue_comments' = issue_comments]_vars

\* set_labels failed after one label was created, and the request was
\* answered without a comment
C26_Witness ==
    \E w \in Workers :
        /\ Taken(w) /\ hook[w].req.event = "issues"
        /\ hook[w].pc = "responded" /\ hook[w].status = 200
        /\ LastCall(w) = "set_labels"
        /\ CountCalls(hook[w], "create_label") > 0
        /\ issue_labels = {} /\ issue_comments = <<>>

(***************************************************************************)
(* The highest health score and the statuses it can reach                  *)
(***************************************************************************)

UncommentedDicts ==
    {get_issue_analytics(l) :
        l \in {x \in ListsOf(Issues) : \A k \in DOMAIN x : x[k].comments = <<>>}}

UnmergedDicts ==
    {get_pull_request_analytics(l) :
        l \in {x \in ListsOf(Pulls) : \A k \in DOMAIN x : x[k].merged_at = <<>>}}

\* the scorer was run on a repository without description, stars, forks,
\* commits, issues and pull requests, and every fetch succeeded
EmptyRepository ==
    /\ fetch_fails = {}
    /\ basic_stats = get_basic_stats([description |-> None, stars |-> 0, forks |-> 0])
    /\ commit_activity = get_commit_activity(0)
    /\ issue_stats = get_issue_analytics(<<>>)
    /\ pr_stats = get_pull_request_analytics(<<>>)

\* C28: when the issue and pull-request fetches succeed, no issue has a
\* comment and no pull request is merged, the empty averages are 0 and get
\* the points of the fastest band, 10 each; a repository with no description,
\* stars, forks, commits, issues and pull requests scores 20.
C28_EmptyAveragesScoreTen ==
    health_pc = "returned" =>
        /\ ("issue_stats" \notin fetch_fails /\ issue_stats \in UncommentedDicts) =>
              /\ issue_stats.avg_response_time_hours.num = 0
              /\ health_score =
                    PointsOfSucceeded(<<"basic_stats", "commit_activity", "pr_stats">>)
                    + Min(15 * ScoreUnit, Weighted(issue_stats.close_rate, 15))
                    + 10 * ScoreUnit
        /\ ("pr_stats" \notin fetch_fails /\ pr_stats \in UnmergedDicts) =>
              /\ pr_stats.avg_merge_time_hours.num = 0
              /\ pr_stats.merge_rate.num = 0
              /\ health_score =
                    PointsOfSucceeded(<<"basic_stats", "commit_activity", "issue_stats">>)
                    + 10 * ScoreUnit
        /\ EmptyRepository => health_score = 20 * ScoreUnit

\* the score of the empty repository was returned
C28_Witness ==
    /\ health_pc = "returned"
    /\ EmptyRepository
    /\ health_score = 20 * ScoreUnit

(***************************************************************************)
(* analytics.py: get_comprehensive_report                                  *)
(***************************************************************************)

\* the contents the repository of the report can have
HostContents == {Strip(x) : x \in RepoNames}

\* a fetcher of the report is called now: it returns the dict built from the
\* present content of the host, or {} when its fetch raises
FetchedNow(name, dict) ==
    UNION {FetchReturns(name, fails, {dict}) : fails \in SUBSET {name}}

\* report is called for a repository of the host
InitReport ==
    /\ HealthIdle
    /\ title = "hello" /\ body = "" /\ hashSeed = <<>>
    /\ cls = NoResult /\ prev = NoResult /\ runs = 1
    /\ additions = 0 /\ deletions = 0 /\ size_label = None /\ pr_sizes = EmptyDict
    /\ HookIdle
    /\ health_status = None /\ dash_status = None
    /\ remaining = 0 /\ reset = 0 /\ clock = 0 /\ last_call = NoCall
    /\ stat_repos = <<>> /\ stat_seen = <<>> /\ stat_result = EmptyDict /\ stat_status = 0
    /\ report = [NoReport EXCEPT !.pc = "basic_stats"]
    /\ report_host \in HostContents

\* the frame of the steps of the report
ReportFrame ==
    /\ UNCHANGED <<health_status, dash_status, quotaVars, statVars>>
    /\ UNCHANGED <<classVars, sizeVars, healthVars, hookVars>>

\* 'basic_stats': self.get_basic_stats()
ReportBasicStats ==
    /\ report.pc = "basic_stats"
    /\ \E r \in FetchedNow("basic_stats", get_basic_stats(HostOf(report_host).repo)) :
          report' = [report EXCEPT !.basic_stats = r, !.pc = "health_score",
                                   !.disturbed = @ \/ r = EmptyDict]
    /\ UNCHANGED report_host
    /\ ReportFrame

\* 'health_score': self.calculate_health_score(), which calls the four
\* fetchers itself
ReportHealthScore ==
    /\ report.pc = "health_score"
    /\ \E fails \in SUBSET Fetches :
          report' = [report EXCEPT !.health_score = HealthScoreOf(report_host, fails),
                                   !.pc = "commit_activity",
                                   !.disturbed = @ \/ fails # {}]
    /\ UNCHANGED report_host
    /\ ReportFrame

\* 'commit_activity': self.get_commit_activity()
ReportCommitActivity ==
    /\ report.pc = "commit_activity"
    /\ \E r \in FetchedNow("commit_activity",
                           get_commit_activity(HostOf(report_host).commits)) :
          report' = [report EXCEPT !.commit_activity = r, !.pc = "issue_analytics",
                                   !.disturbed = @ \/ r = EmptyDict]
    /\ UNCHANGED report_host
    /\ ReportFrame

\* 'issue_analytics': self.get_issue_analytics()
ReportIssueAnalytics ==
    /\ report.pc = "issue_analytics"
    /\ \E r \in FetchedNow("issue_stats", get_issue_analytics(HostOf(report_host).issues)) :
          report' = [report EXCEPT !.issue_analytics = r, !.pc = "pr_analytics",
                                   !.disturbed = @ \/ r = EmptyDict]
    /\ UNCHANGED report_host
    /\ ReportFrame

\* 'pr_analytics': self.get_pull_request_analytics()
ReportPrAnalytics ==
    /\ report.pc = "pr_analytics"
    /\ \E r \in FetchedNow("pr_stats",
                           get_pull_request_analytics(HostOf(report_host).pulls)) :
          report' = [report EXCEPT !.pr_analytics = r, !.pc = "contributor_activity",
                                   !.disturbed = @ \/ r = EmptyDict]
    /\ UNCHANGED report_host
    /\ ReportFrame

\* 'contributor_activity': self.get_contributor_activity(), and the dict is returned
ReportContributorActivity ==
    /\ report.pc = "contributor_activity"
    /\ report' = [report EXCEPT !.pc = "returned"]
    /\ UNCHANGED report_host
    /\ ReportFrame

\* host: while the report is built, the content of the repository changes
\* (a commit, an issue, a comment, a merge)
HostChanges ==
    /\ report.pc \notin {"idle", "returned"}
    /\ report_host' \in HostContents \ {report_host}
    /\ report' = [report EXCEPT !.disturbed = TRUE]
    /\ ReportFrame

NextReport ==
    \/ ReportBasicStats
    \/ ReportHealthScore
    \/ ReportCommitActivity
    \/ ReportIssueAnalytics
    \/ ReportPrAnalytics
    \/ ReportContributorActivity
    \/ HostChanges

SpecReport == InitReport /\ [][NextReport]_vars

\* the score of the health formula on the sections of the report
ScoreOfSections ==
    HealthScoreOn(report.basic_stats, report.commit_activity,
                  report.issue_analytics, report.pr_analytics)

\* C29: in every report that get_comprehensive_report returns, health_score
\* is the score the health formula yields on the basic_stats, commit_activity,
\* issue_analytics and pr_analytics of that report, also when fetches fail or
\* the data of the host changes during the request.
C29_ScoreMatchesSections ==
    report.pc = "returned" => report.health_score = ScoreOfSections

\* the part of C29 that holds: the report of a request during which no
\* fetch failed and the host did not change
C29_MatchesWhenUndisturbed ==
    (report.pc = "returned" /\ ~report.disturbed) =>
        report.health_score = ScoreOfSections

(***************************************************************************)
(* The components of the comment and the component labels                  *)
(***************************************************************************)

\* the component labels among the labels of the issue
ComponentLabelsOfIssue ==
    issue_labels \cap {"component:" \o c : c \in ComponentUniverse}

\* the component labels that correspond to the components a comment names
ComponentLabelsNamed(comment) ==
    {"component:" \o c : c \in Range(comment.components)}

\* C30: the components named in the auto-label comment posted on an issue
\* are exactly the components for which a component label was applied to the
\* issue, for every body, also one that mentions more than 3 components.
C30_CommentNamesLabelledComponents ==
    \A k \in DOMAIN issue_comments :
        ComponentLabelsNamed(issue_comments[k]) = ComponentLabelsOfIssue

\* the part of C30 that holds: the labelled components are among the named
\* ones, and they are the same when the body mentions at most 3 components
C30_LabelledAmongNamed ==
    \A k \in DOMAIN issue_comments :
        /\ ComponentLabelsOfIssue \subseteq ComponentLabelsNamed(issue_comments[k])
        /\ Len(issue_comments[k].components) <= 3 =>
              ComponentLabelsNamed(issue_comments[k]) = ComponentLabelsOfIssue

====
